---- MODULE Spec2Model ----
(***************************************************************************)
(* The client-side persistence layer of AgoV3: the four collections of the *)
(* local transactional object store (categories, items, logs, prefs) and   *)
(* the repository operations over them.                                    *)
(*                                                                         *)
(* A collection is a function from primary keys to records.  Every         *)
(* collection has keyPath 'id', so a record is stored under its own id.    *)
(* Ids stand for the strings of crypto.randomUUID(); they are numbered so  *)
(* that the engine's ascending key order is the order of the numbers.      *)
(* Dates stand for zero-padded YYYY-MM-DD strings, numbered so that        *)
(* String.localeCompare on the strings is the order of the numbers.        *)
(* The createdAt stamps are written once and read by no operation, so the  *)
(* records do not carry them.                                              *)
(***************************************************************************)
EXTENDS Integers, Sequences, FiniteSets, TLC

VARIABLES
    categories,      \* object store 'categories'
    items,           \* object store 'items'
    logs,            \* object store 'logs'
    prefs,           \* object store 'prefs' (out-of-line key 'settings')
    hasBySortIndex,  \* whether index 'by-sort' exists on 'categories'
    tx,              \* the multi-request readwrite transaction in flight
    last,            \* the repository call that completed last
    dbPromise,       \* let dbPromise: the memoized open of this page, or none
    opens,           \* the opens this page has started, each with its state
    got,             \* what each getDB() call of this page returned
    disk,            \* the stored database: its version, object stores, indexes
    clearCall,       \* the clearDatabase() call in flight
    deleteRequest,   \* the engine's deleteDatabase request
    otherTab,        \* whether another tab holds a connection to the database
    localStorage,    \* the slot 'ago-theme' of localStorage
    recent,          \* the slot 'ago-recent-categories' of localStorage
    draft,           \* the slot 'ago-new-item-draft' of localStorage
    now,             \* the system clock that Date.now() reads
    tracked,         \* history: the category ids in the order of their last use
    home,            \* the state of the Home page and its sortedItems
    detail,          \* the logs of the item detail page and its stats
    dateCall,        \* the call of a dateUtils function that returned last
    calls,           \* the calls invoked that have not reached the database yet
    sheets,          \* FilterProvider: which of the three sheets are open
    form             \* NewItemSheet: its props, its state and its draft timer

\* the handle and the schema, which the repository operations leave alone
dbvars == <<dbPromise, opens, got, disk, clearCall, deleteRequest, otherTab>>

\* the other slots of localStorage, the clock and the pages, which the
\* repository operations leave alone
pagevars == <<recent, draft, now, tracked, home, detail, dateCall>>

\* the calls and timers in flight outside a transaction, and the sheets
flowvars == <<calls, sheets, form>>

vars == <<categories, items, logs, prefs, hasBySortIndex, tx, last, dbvars, localStorage,
          pagevars, flowvars>>

----------------------------------------------------------------------------
(* Bounds of the model *)

MaxCats == 3
MaxItems == 2
MaxLogs == 2
MaxSort == 2
MaxDate == 2
NumDefaults == 2
MaxReorderLen == 2
MaxOpens == 2
MaxCalls == 4
MaxShown == 3
MaxAgo == 731
MaxHistory == 3
MaxTracks == 12
MaxPending == 2

CatIds == 1..MaxCats
ItemIds == 1..MaxItems
LogIds == 1..MaxLogs
Dates == 1..MaxDate

----------------------------------------------------------------------------
(* Program constants: types.ts *)

DEFAULT_CATEGORIES ==
    <<"Home", "Car", "Health", "Fitness", "Pets", "Tech", "Finance", "People",
      "Personal">>

DEFAULT_CATEGORY_COLORS ==
    <<"#B91C1C", "#9A3412", "#92400E", "#78350F", "#365314", "#166534",
      "#065F46", "#134E4A", "#164E63", "#0C4A6E", "#1E40AF", "#3730A3",
      "#5B21B6", "#6B21A8", "#86198F", "#9F1239">>

DEFAULT_PREFERENCES == [theme |-> "system", density |-> "regular"]

\* '#6B7280', the fallback colour of create and seedDefaults
GRAY == "#6B7280"

\* The first NumDefaults default names: the list seedDefaults iterates over,
\* cut to the model's bound.
SeedNames == SubSeq(DEFAULT_CATEGORIES, 1, NumDefaults)

\* JavaScript values that are falsy: undefined / '' for a string parameter,
\* and the absent replacementCategoryId.
NoColor == ""
NoRepl == 0
NoCategory == 0
NoNote == "undefined"

\* logs[0] of an empty array, store.get of a missing key
undefined == [undefined |-> TRUE]

----------------------------------------------------------------------------
(* The object-store engine *)

Min(S) == CHOOSE m \in S : \A n \in S : m <= n
Max(S) == CHOOSE m \in S : \A n \in S : n <= m
Range(s) == {s[i] : i \in 1..Len(s)}

EmptyStore == [k \in {} |-> undefined]

\* fault: the call returns and the write is not in the store
PutLost(store, value) == store

\* store.put(value) / store.add(value) on a store with keyPath 'id'
Put(store, value) ==
    [k \in DOMAIN store \cup {value.id} |-> IF k = value.id THEN value ELSE store[k]]

\* store.delete(key)
Delete(store, key) == [k \in DOMAIN store \ {key} |-> store[k]]

\* store.get(key)
Get(store, key) == IF key \in DOMAIN store THEN store[key] ELSE undefined

\* { ...record, ...updates }
Merge(record, updates) ==
    [f \in DOMAIN record \cup DOMAIN updates |->
        IF f \in DOMAIN updates THEN updates[f] ELSE record[f]]

RECURSIVE KeySeq(_)
KeySeq(keys) ==
    IF keys = {} THEN <<>>
    ELSE LET k == Min(keys) IN <<k>> \o KeySeq(keys \ {k})

\* store.getAll(): every record, in ascending primary-key order
GetAll(store) ==
    LET ks == KeySeq(DOMAIN store) IN [i \in 1..Len(ks) |-> store[ks[i]]]

\* index.getAll(key) / db.getAllFromIndex(store, index, key): the records whose
\* indexed field equals key, in ascending primary-key order
GetAllFromIndex(store, field, key) ==
    LET ks == KeySeq({k \in DOMAIN store : store[k][field] = key})
    IN  [i \in 1..Len(ks) |-> store[ks[i]]]

RECURSIVE IndexKeySeq(_, _, _)
IndexKeySeq(store, field, keys) ==
    IF keys = {} THEN <<>>
    ELSE LET k == CHOOSE a \in keys : \A b \in keys :
                      \/ store[a][field] < store[b][field]
                      \/ store[a][field] = store[b][field] /\ a <= b
         IN  <<k>> \o IndexKeySeq(store, field, keys \ {k})

\* index.getAll(): every record, in ascending order of the indexed field and,
\* among equal index keys, of the primary key
IndexGetAll(store, field) ==
    LET ks == IndexKeySeq(store, field, DOMAIN store)
    IN  [i \in 1..Len(ks) |-> store[ks[i]]]

\* Array.prototype.sort with a comparator (a, b) => rank(a) - rank(b): stable,
\* ascending in rank.  rank is a function on the elements of the array.
InsertByRank(x, sorted, rank) ==
    LET n == Cardinality({i \in 1..Len(sorted) : rank[sorted[i]] < rank[x]})
    IN  SubSeq(sorted, 1, n) \o <<x>> \o SubSeq(sorted, n + 1, Len(sorted))

RECURSIVE ArraySort(_, _)
ArraySort(array, rank) ==
    IF array = <<>> THEN <<>>
    ELSE InsertByRank(Head(array), ArraySort(Tail(array), rank), rank)

----------------------------------------------------------------------------
(* Transactions and call history *)

NoTx == [op |-> "none"]
Idle == tx = NoTx

\* the committed contents of the three record collections
Stores == [categories |-> categories, items |-> items, logs |-> logs]

\* db.transaction(storeNames, 'readwrite'): the transaction works on its own
\* view of the stores of its scope; nothing it writes is visible, or kept,
\* before it commits
Transaction(op, id, repl, scope) ==
    [op |-> op, id |-> id, repl |-> repl, pos |-> 0,
     work |-> [s \in scope |-> Stores[s]]]

\* tx.done resolving: the transaction's view replaces the stores of its scope
Commit(work) ==
    /\ categories' = IF "categories" \in DOMAIN work THEN work.categories ELSE categories
    /\ items' = IF "items" \in DOMAIN work THEN work.items ELSE items
    /\ logs' = IF "logs" \in DOMAIN work THEN work.logs ELSE logs

\* cursor.continue() of index.openCursor(IDBKeyRange.only(key)): the primary
\* key of the next record after position pos whose indexed field equals key,
\* or 0 for the null cursor
CursorNext(store, field, key, pos) ==
    LET rest == {k \in DOMAIN store : store[k][field] = key /\ k > pos}
    IN  IF rest = {} THEN 0 ELSE Min(rest)

Done(op, id, arg) == [op |-> op, id |-> id, arg |-> arg, res |-> "ok"]
Failed(op, id, arg) == [op |-> op, id |-> id, arg |-> arg, res |-> "error"]
Pending(op, id, arg) == [op |-> op, id |-> id, arg |-> arg, res |-> "pending"]

\* A UUID differs from every string the database holds.
FreshCatIds ==
    CatIds \ (DOMAIN categories \cup {items[i].categoryId : i \in DOMAIN items})
FreshItemIds ==
    ItemIds \ (DOMAIN items \cup {logs[l].itemId : l \in DOMAIN logs})
FreshLogIds == LogIds \ DOMAIN logs

----------------------------------------------------------------------------
(* categoriesRepo *)

\* fault: the fallback returns the records as fetched
Unsorted(all) == all

\* all.sort((a, b) => a.sortOrder - b.sortOrder)
SortBySortOrder(all) ==
    ArraySort(all, [c \in Range(all) |-> c.sortOrder])

categoriesRepo_listWith(store, indexPresent) ==
    IF indexPresent
    THEN IndexGetAll(store, "sortOrder")
    ELSE SortBySortOrder(GetAll(store))

categoriesRepo_list == categoriesRepo_listWith(categories, hasBySortIndex)

\* fault: sortOrder taken from the number of categories
SortOrderFromLength(list) == Len(list)

\* categories.length > 0 ? Math.max(...categories.map(c => c.sortOrder)) + 1 : 0
NextSortOrder(list) ==
    IF Len(list) > 0 THEN Max({list[i].sortOrder : i \in 1..Len(list)}) + 1 ELSE 0

NewCategory(id, name, sortOrder, color) ==
    [id |-> id, name |-> name, sortOrder |-> sortOrder,
     color |-> IF color # NoColor THEN color ELSE GRAY]

categoriesRepo_create(name, color) ==
    /\ Idle
    /\ LET sortOrder == NextSortOrder(categoriesRepo_list) IN
        /\ sortOrder <= MaxSort
        /\ \E id \in FreshCatIds :
            /\ categories' = Put(categories, NewCategory(id, name, sortOrder, color))
            /\ last' = Done("categories.create", id, name)
    /\ UNCHANGED <<items, logs, prefs, hasBySortIndex, tx, dbvars, localStorage, pagevars,
                   flowvars>>

\* fault: update() puts without looking the record up
UpsertIn(store, id, updates) ==
    Put(store, Merge(IF id \in DOMAIN store THEN store[id] ELSE [id |-> id], updates))

\* the record store.put writes in update(): nothing when the id is not stored
UpdateIn(store, id, updates) ==
    IF Get(store, id) # undefined
    THEN Put(store, Merge(store[id], updates))
    ELSE store

categoriesRepo_update(id, updates) ==
    /\ Idle
    /\ categories' = UpdateIn(categories, id, updates)
    /\ last' = Done("categories.update", id, updates)
    /\ UNCHANGED <<items, logs, prefs, hasBySortIndex, tx, dbvars, localStorage, pagevars,
                   flowvars>>

\* fault: positions counted from one
ReorderEntryOneBased(store, index, id) ==
    IF id \in DOMAIN store
    THEN [store EXCEPT ![id].sortOrder = index + 1]
    ELSE store

\* the loop body of reorder for one (index, id) entry; index is zero-based
ReorderEntry(store, index, id) ==
    IF Get(store, id) # undefined
    THEN Put(store, [store[id] EXCEPT !.sortOrder = index])
    ELSE store

RECURSIVE ReorderFrom(_, _, _)
ReorderFrom(store, idsInOrder, n) ==
    IF n > Len(idsInOrder) THEN store
    ELSE ReorderFrom(ReorderEntry(store, n - 1, idsInOrder[n]), idsInOrder, n + 1)

categoriesRepo_reorder(idsInOrder) ==
    /\ Idle
    /\ categories' = ReorderFrom(categories, idsInOrder, 1)
    /\ last' = Done("categories.reorder", 0, idsInOrder)
    /\ UNCHANGED <<items, logs, prefs, hasBySortIndex, tx, dbvars, localStorage, pagevars,
                   flowvars>>

\* const tx = db.transaction(['categories', 'items'], 'readwrite')
categoriesRepo_delete_scope == {"categories", "items"}

categoriesRepo_delete_begin(id, replacementCategoryId) ==
    /\ Idle
    /\ tx' = Transaction("categories.delete", id, replacementCategoryId,
                         categoriesRepo_delete_scope)
    /\ last' = Pending("categories.delete", id, replacementCategoryId)
    /\ UNCHANGED <<categories, items, logs, prefs, hasBySortIndex, dbvars, localStorage,
                   pagevars, flowvars>>

\* fault: the cursor loop runs whether or not a replacement was given
AlwaysTruthy(replacementCategoryId) == TRUE

\* if (replacementCategoryId)
Truthy(replacementCategoryId) == replacementCategoryId # NoRepl

\* fault: the item is changed in memory and never written back
ReassignNothing(itemStore, key, replacementCategoryId) == itemStore

\* item.categoryId = replacementCategoryId; await cursor.update(item)
ReassignItem(itemStore, key, replacementCategoryId) ==
    Put(itemStore, [itemStore[key] EXCEPT !.categoryId = replacementCategoryId])

\* one turn of the while (cursor) loop over index 'by-category'
categoriesRepo_delete_reassign ==
    /\ tx.op = "categories.delete"
    /\ Truthy(tx.repl)
    /\ LET key == CursorNext(tx.work.items, "categoryId", tx.id, tx.pos) IN
        /\ key # 0
        /\ tx' = [tx EXCEPT !.work.items = ReassignItem(@, key, tx.repl),
                            !.pos = key]
    /\ UNCHANGED <<categories, items, logs, prefs, hasBySortIndex, last, dbvars, localStorage,
                   pagevars, flowvars>>

\* await catStore.delete(id); await tx.done
categoriesRepo_delete_finish ==
    /\ tx.op = "categories.delete"
    /\ \/ ~Truthy(tx.repl)
       \/ CursorNext(tx.work.items, "categoryId", tx.id, tx.pos) = 0
    /\ Commit([tx.work EXCEPT !.categories = Delete(@, tx.id)])
    /\ tx' = NoTx
    /\ last' = Done("categories.delete", tx.id, <<tx.repl, tx.pos>>)
    /\ UNCHANGED <<prefs, hasBySortIndex, dbvars, localStorage, pagevars, flowvars>>

\* A request of the transaction in flight fails (or the page dies): the engine
\* aborts the transaction, its view is dropped and the call rejects.
\* arg records the cursor position reached.
TxAbort ==
    /\ ~Idle
    /\ tx' = NoTx
    /\ last' = Failed(tx.op, tx.id, tx.pos)
    /\ UNCHANGED <<categories, items, logs, prefs, hasBySortIndex, dbvars, localStorage,
                   pagevars, flowvars>>

----------------------------------------------------------------------------
(* itemsRepo *)

itemsRepo_getAll == GetAll(items)

NewItem(id, item) == [id |-> id, title |-> item.title, categoryId |-> item.categoryId]

itemsRepo_create(item) ==
    /\ Idle
    /\ \E id \in FreshItemIds :
        /\ items' = Put(items, NewItem(id, item))
        /\ last' = Done("items.create", id, item)
    /\ UNCHANGED <<categories, logs, prefs, hasBySortIndex, tx, dbvars, localStorage, pagevars,
                   flowvars>>

itemsRepo_update(id, updates) ==
    /\ Idle
    /\ items' = UpdateIn(items, id, updates)
    /\ last' = Done("items.update", id, updates)
    /\ UNCHANGED <<categories, logs, prefs, hasBySortIndex, tx, dbvars, localStorage, pagevars,
                   flowvars>>

\* fault: the transaction is opened on 'logs' alone
ScopeLogsOnly == {"logs"}

\* const tx = db.transaction(['items', 'logs'], 'readwrite')
itemsRepo_delete_scope == {"items", "logs"}

itemsRepo_delete_begin(id) ==
    /\ Idle
    /\ tx' = Transaction("items.delete", id, NoRepl, itemsRepo_delete_scope)
    /\ last' = Pending("items.delete", id, 0)
    /\ UNCHANGED <<categories, items, logs, prefs, hasBySortIndex, dbvars, localStorage,
                   pagevars, flowvars>>

\* fault: the loop walks the cursor without deleting
CursorDeleteSkipped(logStore, key) == logStore

\* await cursor.delete()
CursorDelete(logStore, key) == Delete(logStore, key)

\* one turn of the while (cursor) loop over index 'by-item'
itemsRepo_delete_cascade ==
    /\ tx.op = "items.delete"
    /\ LET key == CursorNext(tx.work.logs, "itemId", tx.id, tx.pos) IN
        /\ key # 0
        /\ tx' = [tx EXCEPT !.work.logs = CursorDelete(@, key), !.pos = key]
    /\ UNCHANGED <<categories, items, logs, prefs, hasBySortIndex, last, dbvars, localStorage,
                   pagevars, flowvars>>

\* await tx.objectStore('items').delete(id); await tx.done.
\* tx.objectStore throws NotFoundError for a store outside the scope: the call
\* rejects, and the transaction, which no request failed, commits as it is.
itemsRepo_delete_finish ==
    /\ tx.op = "items.delete"
    /\ CursorNext(tx.work.logs, "itemId", tx.id, tx.pos) = 0
    /\ IF "items" \in DOMAIN tx.work
       THEN /\ Commit([tx.work EXCEPT !.items = Delete(@, tx.id)])
            /\ last' = Done("items.delete", tx.id, tx.pos)
       ELSE /\ Commit(tx.work)
            /\ last' = Failed("items.delete", tx.id, tx.pos)
    /\ tx' = NoTx
    /\ UNCHANGED <<prefs, hasBySortIndex, dbvars, localStorage, pagevars, flowvars>>

----------------------------------------------------------------------------
(* logsRepo *)

\* fault: comparator (a, b) => a.date.localeCompare(b.date)
SortByDateAsc(array) ==
    ArraySort(array, [l \in Range(array) |-> l.date])

\* logs.sort((a, b) => b.date.localeCompare(a.date))
SortByDateDesc(array) ==
    ArraySort(array, [l \in Range(array) |-> 0 - l.date])

logsRepo_listByItem(itemId) ==
    SortByDateDesc(GetAllFromIndex(logs, "itemId", itemId))

\* fault: logs[logs.length - 1]
LastElementOfList(itemId) ==
    LET list == logsRepo_listByItem(itemId)
    IN  IF Len(list) > 0 THEN list[Len(list)] ELSE undefined

\* logs[0]
logsRepo_getLastLog(itemId) ==
    LET list == logsRepo_listByItem(itemId)
    IN  IF Len(list) > 0 THEN list[1] ELSE undefined

NewLog(id, itemId, date, note) ==
    [id |-> id, itemId |-> itemId, date |-> date, note |-> note]

logsRepo_add(itemId, date, note) ==
    /\ Idle
    /\ \E id \in FreshLogIds :
        /\ logs' = Put(logs, NewLog(id, itemId, date, note))
        /\ last' = Done("logs.add", id, itemId)
    /\ UNCHANGED <<categories, items, prefs, hasBySortIndex, tx, dbvars, localStorage,
                   pagevars, flowvars>>

logsRepo_update(id, updates) ==
    /\ Idle
    /\ logs' = UpdateIn(logs, id, updates)
    /\ last' = Done("logs.update", id, updates)
    /\ UNCHANGED <<categories, items, prefs, hasBySortIndex, tx, dbvars, localStorage,
                   pagevars, flowvars>>

logsRepo_delete(id) ==
    /\ Idle
    /\ logs' = Delete(logs, id)
    /\ last' = Done("logs.delete", id, 0)
    /\ UNCHANGED <<categories, items, prefs, hasBySortIndex, tx, dbvars, localStorage,
                   pagevars, flowvars>>

----------------------------------------------------------------------------
(* db.ts: seedDefaults *)

\* catStore.add of the default category at zero-based position index
SeedCategory(id, index) ==
    [id |-> id, name |-> SeedNames[index + 1], sortOrder |-> index,
     color |-> IF index + 1 <= Len(DEFAULT_CATEGORY_COLORS)
               THEN DEFAULT_CATEGORY_COLORS[index + 1] ELSE GRAY]

RECURSIVE SeedFrom(_, _, _)
SeedFrom(store, ids, index) ==
    IF index >= Len(SeedNames) THEN store
    ELSE SeedFrom(Put(store, SeedCategory(ids[index + 1], index)), ids, index + 1)

\* the fresh ids of one seeding: pairwise different UUIDs
SeedIds ==
    {ids \in [1..Len(SeedNames) -> FreshCatIds] :
        \A i, j \in 1..Len(SeedNames) : i # j => ids[i] # ids[j]}

\* prefsStore.put(DEFAULT_PREFERENCES, 'settings')
PutSettings(store, value) == [k \in {"settings"} |-> value]

\* fault: the defaults are inserted whatever the count
SeedAlways(count) == TRUE

\* if (count === 0)
SeedNeeded(count) == count = 0

\* id and arg of the call record: the count and the existingPrefs it read
seedDefaults ==
    /\ Idle
    /\ IF SeedNeeded(Cardinality(DOMAIN categories))
       THEN \E ids \in SeedIds : categories' = SeedFrom(categories, ids, 0)
       ELSE categories' = categories
    /\ prefs' = IF Get(prefs, "settings") = undefined
                THEN PutSettings(prefs, DEFAULT_PREFERENCES)
                ELSE prefs
    /\ last' = Done("seedDefaults", Cardinality(DOMAIN categories), Get(prefs, "settings"))
    /\ UNCHANGED <<items, logs, hasBySortIndex, tx, dbvars, localStorage, pagevars, flowvars>>

----------------------------------------------------------------------------
(* db.ts: the versioned database and its memoized handle *)

\* const DB_VERSION = 6
DB_VERSION == 6

\* let dbPromise, before the first getDB() and after `dbPromise = undefined`
NoPromise == 0

StoreNames == {"categories", "items", "logs", "prefs"}
IndexNames == {"by-sort", "by-category", "by-item", "by-date", "by-created"}

\* the object store of each index
StoreOf(indexName) ==
    CASE indexName = "by-sort" -> "categories"
      [] indexName = "by-category" -> "items"
      [] OTHER -> "logs"

\* The stored database.  disk.indexes holds the indexes of items and logs;
\* the index of categories is hasBySortIndex.  Version 0 is no database.
NoDatabase == [version |-> 0, stores |-> {}, indexes |-> {}]
CurrentDatabase ==
    [version |-> DB_VERSION, stores |-> StoreNames, indexes |-> IndexNames \ {"by-sort"}]

indexNames == disk.indexes \cup (IF hasBySortIndex THEN {"by-sort"} ELSE {})

\* the states of an open: the promise openDB(...).catch(...) of getDB
\*   "pending"   the open request is in flight
\*   "failing"   openDB has rejected, the catch handler has not run yet
\*   "rejected"  the catch handler has rethrown
\*   "resolved"  the handle is open
\*   "closed"    the handle was open and db.close() was called on it
InFlight(open) == open \in {"pending", "failing"}

\* fault: every call opens
NeverMemoized(promise) == FALSE

\* if (!dbPromise)
Memoized(promise) == promise # NoPromise

\* export function getDB(): synchronous up to the return of the promise
GetDBCall ==
    /\ Len(got) < MaxCalls
    /\ IF Memoized(dbPromise)
       THEN UNCHANGED <<opens, dbPromise>>
       ELSE /\ Len(opens) < MaxOpens
            /\ opens' = Append(opens, "pending")
            /\ dbPromise' = Len(opens) + 1
    /\ got' = Append(got, dbPromise')

\* a call site calls getDB()
getDB ==
    /\ GetDBCall
    /\ UNCHANGED <<categories, items, logs, prefs, hasBySortIndex, tx, last,
                   disk, clearCall, deleteRequest, otherTab, localStorage, pagevars, flowvars>>

\* const hasStore = (name) => Array.from(db.objectStoreNames).includes(name)
hasStore(stores, name) == name \in stores

\* fault: an index is created only together with its store
ensureIndexSkipped(indexes, indexName, thrown) == indexes

\* const ensureIndex = (storeName, indexName, keyPath) => ...: the index is
\* created unless the store has it; whatever createIndex throws is caught.
ensureIndex(indexes, indexName, thrown) ==
    IF indexName \notin indexes /\ ~thrown THEN indexes \cup {indexName} ELSE indexes

\* if (!hasStore(name)) { createObjectStore; createIndex } else { ensureIndex }
EnsureStoreIndex(stores, indexes, indexName, faults) ==
    IF ~hasStore(stores, StoreOf(indexName))
    THEN indexes \cup {indexName}
    ELSE ensureIndex(indexes, indexName, indexName \in faults)

\* the indexes at the end of upgrade(), the five in the order of the code;
\* faults are the indexes whose createIndex throws
UpgradeIndexes(stores, indexes, faults) ==
    LET sort     == EnsureStoreIndex(stores, indexes, "by-sort", faults)
        category == EnsureStoreIndex(stores, sort, "by-category", faults)
        item     == EnsureStoreIndex(stores, category, "by-item", faults)
        date     == EnsureStoreIndex(stores, item, "by-date", faults)
    IN  EnsureStoreIndex(stores, date, "by-created", faults)

\* DEFAULT_CATEGORIES.indexOf(name)
IndexOf(array, x) ==
    IF \E n \in 1..Len(array) : array[n] = x
    THEN Min({n \in 1..Len(array) : array[n] = x}) - 1
    ELSE -1

\* defaultIndex >= 0 && defaultIndex < DEFAULT_CATEGORY_COLORS.length
\*     ? DEFAULT_CATEGORY_COLORS[defaultIndex] : '#6B7280'
DefaultColor(name) ==
    LET defaultIndex == IndexOf(DEFAULT_CATEGORIES, name) IN
    IF defaultIndex >= 0 /\ defaultIndex < Len(DEFAULT_CATEGORY_COLORS)
    THEN DEFAULT_CATEGORY_COLORS[defaultIndex + 1]
    ELSE GRAY

\* fault: the color is assigned whether or not the category has one
MigrateAlways(category) == [category EXCEPT !.color = DefaultColor(category.name)]

\* if (!category.color) { category.color = defaultColor; put(category) }
MigrateCategory(category) ==
    IF category.color = NoColor
    THEN [category EXCEPT !.color = DefaultColor(category.name)]
    ELSE category

\* if (oldVersion < 6 && hasStore('categories')) { for (const category of ...) }
MigrateColors(oldVersion, stores, store) ==
    IF oldVersion < 6 /\ hasStore(stores, "categories")
    THEN [k \in DOMAIN store |-> MigrateCategory(store[k])]
    ELSE store

\* An open request succeeds.  The engine calls upgrade() only when the stored
\* version is below DB_VERSION; it serves the request after a deleteDatabase
\* queued before it, and changes the version only once no other connection
\* is open.
OpenSucceeds(o, faults) ==
    /\ o \in DOMAIN opens /\ opens[o] = "pending"
    /\ deleteRequest = "none"
    /\ IF disk.version < DB_VERSION
       THEN /\ ~otherTab
            /\ LET upgraded == UpgradeIndexes(disk.stores, indexNames, faults) IN
                /\ disk' = [version |-> DB_VERSION, stores |-> StoreNames,
                            indexes |-> upgraded \ {"by-sort"}]
                /\ hasBySortIndex' = ("by-sort" \in upgraded)
            /\ categories' = MigrateColors(disk.version, StoreNames, categories)
       ELSE UNCHANGED <<disk, hasBySortIndex, categories>>
    /\ opens' = [opens EXCEPT ![o] = "resolved"]
    /\ last' = Done("open", o, [oldVersion |-> disk.version, stores |-> disk.stores,
                                 indexes |-> indexNames, faults |-> faults])
    /\ UNCHANGED <<items, logs, prefs, tx, dbPromise, got, clearCall,
                   deleteRequest, otherTab, localStorage, pagevars, flowvars>>

\* openDB rejects: the engine refuses the open
OpenFails(o) ==
    /\ o \in DOMAIN opens /\ opens[o] = "pending"
    /\ opens' = [opens EXCEPT ![o] = "failing"]
    /\ UNCHANGED <<categories, items, logs, prefs, hasBySortIndex, tx, last,
                   dbPromise, got, disk, clearCall, deleteRequest, otherTab,
                   localStorage, pagevars, flowvars>>

\* fault: the rejected promise stays memoized
CatchKeeps(promise) == promise

\* .catch((error) => { dbPromise = undefined as any; throw error; })
CatchHandler(promise) == NoPromise

OpenCatch(o) ==
    /\ o \in DOMAIN opens /\ opens[o] = "failing"
    /\ opens' = [opens EXCEPT ![o] = "rejected"]
    /\ dbPromise' = CatchHandler(dbPromise)
    /\ last' = Failed("open", o, 0)
    /\ UNCHANGED <<categories, items, logs, prefs, hasBySortIndex, tx, got,
                   disk, clearCall, deleteRequest, otherTab, localStorage, pagevars, flowvars>>

\* The page is loaded anew: the module state is gone, its connections are
\* closed, the stored database stays.
Reload ==
    /\ tx = NoTx
    /\ opens # <<>>
    /\ dbPromise' = NoPromise
    /\ opens' = <<>>
    /\ got' = <<>>
    /\ clearCall' = NoTx
    /\ UNCHANGED <<categories, items, logs, prefs, hasBySortIndex, tx, last,
                   disk, deleteRequest, otherTab, localStorage, pagevars, flowvars>>

\* the handle of this page is usable: getDB() resolves to an open connection
Connected == dbPromise # NoPromise /\ opens[dbPromise] = "resolved"

\* export async function clearDatabase(): const db = await getDB()
clearDatabase_begin ==
    /\ clearCall = NoTx
    /\ GetDBCall
    /\ clearCall' = [op |-> "clearDatabase", promise |-> dbPromise', pc |-> "await getDB"]
    /\ UNCHANGED <<categories, items, logs, prefs, hasBySortIndex, tx, last,
                   disk, deleteRequest, otherTab, localStorage, pagevars, flowvars>>

\* dbPromise = undefined as any
ResetPromise(promise) == NoPromise

\* db.close(); dbPromise = undefined; indexedDB.deleteDatabase(DB_NAME): one
\* synchronous run, the executor of the new Promise included
clearDatabase_close ==
    /\ clearCall # NoTx /\ clearCall.pc = "await getDB"
    /\ opens[clearCall.promise] \in {"resolved", "closed"}
    /\ opens' = [opens EXCEPT ![clearCall.promise] = "closed"]
    /\ dbPromise' = ResetPromise(dbPromise)
    /\ deleteRequest' = "pending"
    /\ clearCall' = [clearCall EXCEPT !.pc = "await delete"]
    /\ UNCHANGED <<categories, items, logs, prefs, hasBySortIndex, tx, last,
                   got, disk, otherTab, localStorage, pagevars, flowvars>>

\* await getDB() throws: the open failed
clearDatabase_rejected ==
    /\ clearCall # NoTx /\ clearCall.pc = "await getDB"
    /\ opens[clearCall.promise] = "rejected"
    /\ clearCall' = NoTx
    /\ last' = Failed("clearDatabase", clearCall.promise, "open")
    /\ UNCHANGED <<categories, items, logs, prefs, hasBySortIndex, tx,
                   dbPromise, opens, got, disk, deleteRequest, otherTab,
                   localStorage, pagevars, flowvars>>

\* The engine deletes the database once no connection to it is open.
\* request.onsuccess = () => resolve()
DeleteDatabaseSuccess ==
    /\ deleteRequest \in {"pending", "blocked"}
    /\ ~otherTab
    /\ \A o \in DOMAIN opens : opens[o] # "resolved"
    /\ disk' = NoDatabase
    /\ hasBySortIndex' = FALSE
    /\ categories' = EmptyStore
    /\ items' = EmptyStore
    /\ logs' = EmptyStore
    /\ prefs' = EmptyStore
    /\ deleteRequest' = "none"
    /\ IF clearCall # NoTx /\ clearCall.pc = "await delete"
       THEN /\ clearCall' = NoTx
            /\ last' = Done("clearDatabase", clearCall.promise, "success")
       ELSE UNCHANGED <<clearCall, last>>
    /\ UNCHANGED <<tx, dbPromise, opens, got, otherTab, localStorage, pagevars, flowvars>>

\* request.onblocked = () => { console.warn(...); resolve(); }: another
\* connection is open; the request stays queued in the engine
DeleteDatabaseBlocked ==
    /\ deleteRequest = "pending"
    /\ otherTab
    /\ deleteRequest' = "blocked"
    /\ IF clearCall # NoTx /\ clearCall.pc = "await delete"
       THEN /\ clearCall' = NoTx
            /\ last' = Done("clearDatabase", clearCall.promise, "blocked")
       ELSE UNCHANGED <<clearCall, last>>
    /\ UNCHANGED <<categories, items, logs, prefs, hasBySortIndex, tx,
                   dbPromise, opens, got, disk, otherTab, localStorage, pagevars, flowvars>>

\* request.onerror = () => reject(request.error)
DeleteDatabaseError ==
    /\ deleteRequest \in {"pending", "blocked"}
    /\ deleteRequest' = "none"
    /\ IF clearCall # NoTx /\ clearCall.pc = "await delete"
       THEN /\ clearCall' = NoTx
            /\ last' = Failed("clearDatabase", clearCall.promise, "delete")
       ELSE UNCHANGED <<clearCall, last>>
    /\ UNCHANGED <<categories, items, logs, prefs, hasBySortIndex, tx,
                   dbPromise, opens, got, disk, otherTab, localStorage, pagevars, flowvars>>

\* another tab of the app opens the database, or is closed
OtherTabOpens ==
    /\ ~otherTab
    /\ deleteRequest = "none"
    /\ disk.version = DB_VERSION
    /\ otherTab' = TRUE
    /\ UNCHANGED <<categories, items, logs, prefs, hasBySortIndex, tx, last,
                   dbPromise, opens, got, disk, clearCall, deleteRequest,
                   localStorage, pagevars, flowvars>>

OtherTabCloses ==
    /\ otherTab
    /\ otherTab' = FALSE
    /\ UNCHANGED <<categories, items, logs, prefs, hasBySortIndex, tx, last,
                   dbPromise, opens, got, disk, clearCall, deleteRequest,
                   localStorage, pagevars, flowvars>>

\* no theme hint: localStorage.getItem('ago-theme') === null
NoTheme == "null"

\* nothing is stored in the other slots and no page is mounted
NoItem == "null"

\* localStorage.getItem(RECENT_CATEGORIES_KEY) is null
NoRecent == [saved |-> FALSE]

\* JSON.stringify(list) is stored
Saved(list) == [saved |-> TRUE, list |-> list]

Unmounted == "unmounted"
NoDateCall == [fn |-> "none"]

SlotsEmpty ==
    /\ recent = NoRecent
    /\ draft = NoItem
    /\ now = 0
    /\ tracked = <<>>

\* useState(false) three times in FilterProvider
NoSheetOpen == [filter |-> FALSE, sort |-> FALSE, settings |-> FALSE]

\* no setTimeout is pending
NoTimer == [set |-> FALSE]

\* NewItemSheet as it is first rendered: isOpen false, useState('') for the
\* title and the category, no timer; rendered tells whether the effects of
\* the last change of isOpen have run
FormClosed ==
    [isOpen |-> FALSE, title |-> <<>>, categoryId |-> NoCategory, timer |-> NoTimer,
     rendered |-> TRUE]

\* no call is waiting, no timer is set and no sheet is open
FlowIdle ==
    /\ calls = {}
    /\ sheets = NoSheetOpen
    /\ form = FormClosed

PageIdle ==
    /\ SlotsEmpty
    /\ FlowIdle
    /\ home = Unmounted
    /\ detail = Unmounted
    /\ dateCall = NoDateCall

\* the state in which the repository operations run: getDB() has resolved on
\* a database of the current version
OpenedDatabase ==
    /\ dbPromise = 1
    /\ opens = <<"resolved">>
    /\ got = <<1>>
    /\ disk = CurrentDatabase
    /\ clearCall = NoTx
    /\ deleteRequest = "none"
    /\ otherTab = FALSE
    /\ localStorage = NoTheme
    /\ FlowIdle

Opened ==
    /\ OpenedDatabase
    /\ PageIdle

----------------------------------------------------------------------------
(* prefsRepo *)

\* fault: the stored record is ignored
AlwaysDefaults(stored) == DEFAULT_PREFERENCES

\* prefs || DEFAULT_PREFERENCES
OrDefaults(stored) == IF stored # undefined THEN stored ELSE DEFAULT_PREFERENCES

\* db.get('prefs', 'settings') || DEFAULT_PREFERENCES
prefsRepo_getFrom(store) == OrDefaults(Get(store, "settings"))

prefsRepo_get == prefsRepo_getFrom(prefs)

\* const current = (await store.get('settings')) || DEFAULT_PREFERENCES;
\* await store.put({ ...current, ...updates }, 'settings'): the requests of
\* the transaction over 'prefs' are issued
prefsRepo_set_begin(updates) ==
    /\ Idle
    /\ tx' = [op |-> "prefs.set", id |-> 0, updates |-> updates, pos |-> 0,
              work |-> [s \in {"prefs"} |->
                           PutSettings(prefs, Merge(prefsRepo_get, updates))]]
    /\ last' = Pending("prefs.set", 0, updates)
    /\ UNCHANGED <<categories, items, logs, prefs, hasBySortIndex, dbvars, localStorage,
                   pagevars, flowvars>>

\* fault: the hint is never written
MirrorSkipped(slot, updates) == slot

\* if (updates.theme && typeof window !== 'undefined')
\*     localStorage.setItem('ago-theme', updates.theme)
MirrorTheme(slot, updates) ==
    IF "theme" \in DOMAIN updates THEN updates.theme ELSE slot

\* await tx.done, however long the write took, and the statements after it
prefsRepo_set_done ==
    /\ tx.op = "prefs.set"
    /\ prefs' = tx.work.prefs
    /\ localStorage' = MirrorTheme(localStorage, tx.updates)
    /\ tx' = NoTx
    /\ last' = Done("prefs.set", 0, tx.updates)
    /\ UNCHANGED <<categories, items, logs, hasBySortIndex, dbvars, pagevars, flowvars>>

----------------------------------------------------------------------------
(* Home: app/page.tsx *)

\* On the Home page the titles, names, notes and the search text are strings
\* that are compared and searched, so they are sequences of characters here.
\* The characters are the letters a, b, c in both cases and the space.

\* Signum of a difference, the result of a compare function
Sign(n) == IF n < 0 THEN 0 - 1 ELSE IF n > 0 THEN 1 ELSE 0

\* the primary weight of a character in the collation: the space before the
\* letters, a letter with its other case
PrimaryWeight(c) ==
    CASE c = " " -> 0
      [] c \in {"a", "A"} -> 1
      [] c \in {"b", "B"} -> 2
      [] c \in {"c", "C"} -> 3

\* the tertiary weight: the lowercase letter before the uppercase one
TertiaryWeight(c) == IF c \in {"A", "B", "C"} THEN 1 ELSE 0

RECURSIVE CompareWeights(_, _, _)
CompareWeights(a, b, primary) ==
    IF a = <<>> /\ b = <<>> THEN 0
    ELSE IF a = <<>> THEN 0 - 1
    ELSE IF b = <<>> THEN 1
    ELSE LET wa == IF primary THEN PrimaryWeight(Head(a)) ELSE TertiaryWeight(Head(a))
             wb == IF primary THEN PrimaryWeight(Head(b)) ELSE TertiaryWeight(Head(b))
         IN  IF wa # wb THEN Sign(wa - wb)
             ELSE CompareWeights(Tail(a), Tail(b), primary)

\* a.localeCompare(b) on titles: the letters decide, whatever their case, and
\* between strings of the same letters the case decides
localeCompare(a, b) ==
    IF CompareWeights(a, b, TRUE) # 0
    THEN CompareWeights(a, b, TRUE)
    ELSE CompareWeights(a, b, FALSE)

\* a.localeCompare(b) on zero-padded dates
localeCompareDate(a, b) == Sign(a - b)

\* const logA = lastLogs[a.id]
LastLogOf(lastLogs, item) ==
    IF item.id \in DOMAIN lastLogs THEN lastLogs[item.id] ELSE undefined

\* fault: both never done compare equal
recentlyDoneUntitled(a, b, logA, logB) ==
    IF logA = undefined /\ logB = undefined THEN 0
    ELSE IF logA = undefined THEN 1
    ELSE IF logB = undefined THEN 0 - 1
    ELSE localeCompareDate(logB.date, logA.date)

\* case 'recently-done'
recentlyDone(a, b, logA, logB) ==
    IF logA = undefined /\ logB = undefined THEN localeCompare(a.title, b.title)
    ELSE IF logA = undefined THEN 1
    ELSE IF logB = undefined THEN 0 - 1
    ELSE localeCompareDate(logB.date, logA.date)

\* fault: the dates are compared as in 'recently-done'
oldestFirstDescending(a, b, logA, logB) ==
    IF logA = undefined /\ logB = undefined THEN localeCompare(a.title, b.title)
    ELSE IF logA = undefined THEN 1
    ELSE IF logB = undefined THEN 0 - 1
    ELSE localeCompareDate(logB.date, logA.date)

\* case 'oldest-first'
oldestFirst(a, b, logA, logB) ==
    IF logA = undefined /\ logB = undefined THEN localeCompare(a.title, b.title)
    ELSE IF logA = undefined THEN 1
    ELSE IF logB = undefined THEN 0 - 1
    ELSE localeCompareDate(logA.date, logB.date)

\* fault: equal titles compare equal
alphabeticalTitleOnly(a, b, logA, logB) == localeCompare(a.title, b.title)

\* case 'alphabetical'
alphabetical(a, b, logA, logB) ==
    LET titleCompare == localeCompare(a.title, b.title)
    IN  IF titleCompare # 0 THEN titleCompare
        ELSE IF logA = undefined /\ logB = undefined THEN 0
        ELSE IF logA = undefined THEN 1
        ELSE IF logB = undefined THEN 0 - 1
        ELSE localeCompareDate(logB.date, logA.date)

\* fault: never done goes to the bottom
neverDoneAtBottom(a, b, logA, logB) ==
    IF logA = undefined /\ logB = undefined THEN localeCompare(a.title, b.title)
    ELSE IF logA = undefined THEN 1
    ELSE IF logB = undefined THEN 0 - 1
    ELSE localeCompareDate(logB.date, logA.date)

\* case 'never-done'
neverDone(a, b, logA, logB) ==
    IF logA = undefined /\ logB = undefined THEN localeCompare(a.title, b.title)
    ELSE IF logA = undefined THEN 0 - 1
    ELSE IF logB = undefined THEN 1
    ELSE localeCompareDate(logB.date, logA.date)

SortMethods == {"recently-done", "oldest-first", "alphabetical", "never-done"}

\* the compare function given to filtered.sort
compareItems(sortMethod, lastLogs, a, b) ==
    LET logA == LastLogOf(lastLogs, a)
        logB == LastLogOf(lastLogs, b)
    IN  CASE sortMethod = "recently-done" -> recentlyDone(a, b, logA, logB)
          [] sortMethod = "oldest-first" -> oldestFirst(a, b, logA, logB)
          [] sortMethod = "alphabetical" -> alphabetical(a, b, logA, logB)
          [] sortMethod = "never-done" -> neverDone(a, b, logA, logB)
          [] OTHER -> localeCompare(a.title, b.title)

\* Array.prototype.sort with a compare function, as an insertion sort: an
\* element goes behind the last element that does not compare after it, so
\* elements that compare equal keep their order
InsertSorted(sorted, x, sortMethod, lastLogs) ==
    LET n == Max({0} \cup {i \in 1..Len(sorted) :
                               compareItems(sortMethod, lastLogs, sorted[i], x) <= 0})
    IN  SubSeq(sorted, 1, n) \o <<x>> \o SubSeq(sorted, n + 1, Len(sorted))

RECURSIVE SortItems(_, _, _)
SortItems(array, sortMethod, lastLogs) ==
    IF array = <<>> THEN <<>>
    ELSE InsertSorted(SortItems(SubSeq(array, 1, Len(array) - 1), sortMethod, lastLogs),
                      array[Len(array)], sortMethod, lastLogs)

\* String.prototype.toLowerCase
toLowerCaseChar(c) ==
    CASE c = "A" -> "a" [] c = "B" -> "b" [] c = "C" -> "c" [] OTHER -> c

toLowerCase(s) == [k \in 1..Len(s) |-> toLowerCaseChar(s[k])]

\* String.prototype.trim
RECURSIVE trimStart(_)
trimStart(s) == IF s # <<>> /\ Head(s) = " " THEN trimStart(Tail(s)) ELSE s

RECURSIVE trimEnd(_)
trimEnd(s) ==
    IF s # <<>> /\ s[Len(s)] = " " THEN trimEnd(SubSeq(s, 1, Len(s) - 1)) ELSE s

trim(s) == trimEnd(trimStart(s))

\* String.prototype.includes
includes(s, query) ==
    \E k \in 0..(Len(s) - Len(query)) : SubSeq(s, k + 1, k + Len(query)) = query

\* Array.prototype.filter
RECURSIVE FilterSeq(_, _)
FilterSeq(array, keep) ==
    IF array = <<>> THEN <<>>
    ELSE (IF Head(array) \in keep THEN <<Head(array)>> ELSE <<>>)
             \o FilterSeq(Tail(array), keep)

\* categories.find(c => c.id === item.categoryId)?.name || ''
CategoryNameOf(cats, item) ==
    IF \E n \in 1..Len(cats) : cats[n].id = item.categoryId
    THEN cats[Min({n \in 1..Len(cats) : cats[n].id = item.categoryId})].name
    ELSE <<>>

\* allLogs[item.id] || []
ItemLogsOf(allLogs, item) ==
    IF item.id \in DOMAIN allLogs THEN allLogs[item.id] ELSE <<>>

\* fault: the title alone is searched
MatchesTitleOnly(state, item, query) == includes(toLowerCase(item.title), query)

\* return titleMatch || categoryMatch || noteMatch, where a log that was
\* saved without a note has no field note
MatchesSearch(state, item, query) ==
    \/ includes(toLowerCase(item.title), query)
    \/ includes(toLowerCase(CategoryNameOf(state.categories, item)), query)
    \/ \E n \in 1..Len(ItemLogsOf(state.allLogs, item)) :
           LET log == ItemLogsOf(state.allLogs, item)[n]
           IN  "note" \in DOMAIN log /\ includes(toLowerCase(log.note), query)

\* no category chip is selected
NoSelection == 0

\* the search filter, then the category filter
Filtered(state) ==
    LET query == trim(toLowerCase(state.debouncedSearchQuery))
        searched ==
            IF trim(state.debouncedSearchQuery) # <<>>
            THEN FilterSeq(state.items,
                           {item \in Range(state.items) : MatchesSearch(state, item, query)})
            ELSE state.items
    IN  IF state.selectedCategory # NoSelection
        THEN FilterSeq(searched,
                       {i \in Range(searched) : i.categoryId = state.selectedCategory})
        ELSE searched

\* whether filtered is still the array items itself
Unfiltered(state) ==
    trim(state.debouncedSearchQuery) = <<>> /\ state.selectedCategory = NoSelection

\* const sortedItems = useMemo(...): the render after a change of state.
\* filtered.sort sorts in place, so with no filter it sorts the array items.
Render(state) ==
    LET sorted == IF state.sortingReady
                  THEN SortItems(Filtered(state), state.sortMethod, state.lastLogs)
                  ELSE <<>>
    IN  [state EXCEPT !.sortedItems = sorted,
                      !.items = IF state.sortingReady /\ Unfiltered(state)
                                THEN sorted ELSE @]

\* the state of the page with its first sortedItems
HomeState(itemList, cats, allLogs, lastLogs, selectedCategory, sortMethod, query, ready) ==
    Render([items |-> itemList, categories |-> cats, allLogs |-> allLogs,
            lastLogs |-> lastLogs, selectedCategory |-> selectedCategory,
            sortMethod |-> sortMethod, debouncedSearchQuery |-> query,
            sortingReady |-> ready, sortedItems |-> <<>>])

HomeFrame ==
    UNCHANGED <<categories, items, logs, prefs, hasBySortIndex, tx, last, dbvars,
                localStorage, recent, draft, now, tracked, detail, dateCall, flowvars>>

\* setSortMethod(method) from the sort sheet
setSortMethod(sortMethod) ==
    /\ home' = Render([home EXCEPT !.sortMethod = sortMethod])
    /\ HomeFrame

\* setSelectedCategory(id) from the filter sheet
setSelectedCategory(selectedCategory) ==
    /\ home' = Render([home EXCEPT !.selectedCategory = selectedCategory])
    /\ HomeFrame

\* setDebouncedSearchQuery(searchQuery) when the debounce timer fires
setDebouncedSearchQuery(searchQuery) ==
    /\ home' = Render([home EXCEPT !.debouncedSearchQuery = searchQuery])
    /\ HomeFrame

----------------------------------------------------------------------------
(* dateUtils.ts *)

\* A YYYY-MM-DD string is the record of its three numbers; every string of
\* the model passes the test of parseDateOnly.  Times are counted in hours,
\* so a day has 24 of them where the code has 1000 * 60 * 60 * 24 ms.
msPerDay == 24

DateOnly(y, m, d) == [year |-> y, month |-> m, day |-> d]

\* the Date constructor and Date.UTC read a year from 0 to 99 as 1900 + year
MakeFullYear(year) == IF 0 <= year /\ year <= 99 THEN 1900 + year ELSE year

\* the day number of 1 January of the year, counted from 1 January 1970
DayFromYear(y) ==
    365 * (y - 1970) + ((y - 1969) \div 4) - ((y - 1901) \div 100) + ((y - 1601) \div 400)

InLeapYear(y) == DayFromYear(y + 1) - DayFromYear(y) = 366

\* the days of the year before the month (0 = January)
DaysBeforeMonth(y, month) ==
    LET common == <<0, 31, 59, 90, 120, 151, 181, 212, 243, 273, 304, 334>>
    IN  common[month + 1] + (IF month >= 2 /\ InLeapYear(y) THEN 1 ELSE 0)

\* MakeDay(year, month, date), for a month from 0 to 11
MakeDay(year, month, date) == DayFromYear(year) + DaysBeforeMonth(year, month) + date - 1

\* the year, month and date of a day number
YearFromDay(day) ==
    CHOOSE y \in (1968 + (day \div 365))..(1972 + (day \div 366)) \cup
                 (1968 + (day \div 366))..(1972 + (day \div 365)) :
        DayFromYear(y) <= day /\ day < DayFromYear(y + 1)

MonthFromDay(day) ==
    LET y == YearFromDay(day)
    IN  CHOOSE month \in 0..11 :
            /\ MakeDay(y, month, 1) <= day
            /\ month < 11 => day < MakeDay(y, month + 1, 1)

DateFromDay(day) ==
    day - MakeDay(YearFromDay(day), MonthFromDay(day), 1) + 1

\* new Date(y, m - 1, d): local midnight of the day, or one hour later in a
\* time zone whose clocks skip that midnight
parseDateOnly(dateStr, skipped) ==
    MakeDay(MakeFullYear(dateStr.year), dateStr.month - 1, dateStr.day) * msPerDay
        + (IF dateStr \in skipped THEN 1 ELSE 0)

\* Date.UTC(date.getFullYear(), date.getMonth(), date.getDate()), where the
\* getters read the local time
UTCOfLocalDate(localTime) ==
    LET day == localTime \div msPerDay
    IN  MakeDay(MakeFullYear(YearFromDay(day)), MonthFromDay(day), DateFromDay(day))
            * msPerDay

\* Math.floor((utcFrom - utcTo) / msPerDay)
diffDaysDateOnly(fromDateStr, toDateStr, skipped) ==
    LET from == parseDateOnly(fromDateStr, skipped)
        to == parseDateOnly(toDateStr, skipped)
    IN  (UTCOfLocalDate(from) - UTCOfLocalDate(to)) \div msPerDay

\* fault: the rest of the days is the rest of the division by 366
RemainderOfLeapYear(diffDays) == diffDays % 366

\* const days = diffDays % 365
RemainingDays(diffDays) == diffDays % 365

\* `year${years === 1 ? '' : 's'}`
Plural(word, n) == IF n = 1 THEN word ELSE word \o "s"

\* formatAgo: the text as the sequence of its words and numbers
formatAgo(diffDays) ==
    IF diffDays < 0 THEN <<"In the future">>
    ELSE IF diffDays = 0 THEN <<"Today">>
    ELSE IF diffDays = 1 THEN <<"Yesterday">>
    ELSE IF diffDays < 365 THEN <<diffDays, "days", "ago">>
    ELSE LET years == diffDays \div 365
             days == RemainingDays(diffDays)
         IN  <<years, Plural("year", years), days, Plural("day", days), "ago">>

DateFrame ==
    UNCHANGED <<categories, items, logs, prefs, hasBySortIndex, tx, last, dbvars,
                localStorage, recent, draft, now, tracked, home, detail, flowvars>>

\* the call has its arguments and has not returned
Called(fn) == dateCall.fn = fn /\ "ret" \notin DOMAIN dateCall

\* the call of diffDaysDateOnly returns
diffDaysDateOnly_call(skipped) ==
    /\ Called("diffDaysDateOnly")
    /\ dateCall' = [fn |-> "diffDaysDateOnly", from |-> dateCall.from, to |-> dateCall.to,
                    ret |-> diffDaysDateOnly(dateCall.from, dateCall.to, skipped)]
    /\ DateFrame

\* the call of formatAgo returns
formatAgo_call ==
    /\ Called("formatAgo")
    /\ dateCall' = [fn |-> "formatAgo", diffDays |-> dateCall.diffDays,
                    ret |-> formatAgo(dateCall.diffDays)]
    /\ DateFrame

----------------------------------------------------------------------------
(* ItemDetailPage: app/items/[id]/page.tsx *)

RECURSIVE SumSeq(_)
SumSeq(numbers) == IF numbers = <<>> THEN 0 ELSE Head(numbers) + SumSeq(Tail(numbers))

\* fault: Math.floor of the quotient
MathFloor(numerator, denominator) == numerator \div denominator

\* Math.round(numerator / denominator): the nearest integer, a half upwards
MathRound(numerator, denominator) == (2 * numerator + denominator) \div (2 * denominator)

\* const stats = useMemo(...)
Stats(logList, skipped) ==
    IF Len(logList) = 0 THEN [average |-> 0, total |-> 0, shortest |-> 0]
    ELSE IF Len(logList) = 1 THEN [average |-> 0, total |-> 1, shortest |-> 0]
    ELSE LET gaps == [i \in 1..(Len(logList) - 1) |->
                         diffDaysDateOnly(logList[i].date, logList[i + 1].date, skipped)]
             totalGap == SumSeq(gaps)
         IN  [average |-> MathRound(totalGap, Len(gaps)),
              total |-> Len(logList),
              shortest |-> Min(Range(gaps))]

\* the render of the page with the logs that useItemLogs has loaded
ItemDetailPage_stats(skipped) ==
    /\ "stats" \notin DOMAIN detail
    /\ detail' = [logs |-> detail.logs, stats |-> Stats(detail.logs, skipped)]
    /\ UNCHANGED <<categories, items, logs, prefs, hasBySortIndex, tx, last, dbvars,
                   localStorage, recent, draft, now, tracked, home, dateCall, flowvars>>

----------------------------------------------------------------------------
(* recentCategories.ts and the drafts of NewItemSheet *)

\* The slot holds the JSON text of an array of {id, timestamp}; JSON.parse of
\* JSON.stringify of such an array is the array, so the slot is the array.
MAX_RECENT == 10

\* fault: the caught error is thrown on
Uncaught(threw) == IF threw THEN "error" ELSE "ok"

\* try { ... } catch (e) { console.error(...) }: the function returns whether
\* or not localStorage threw
TryCatch(threw) == "ok"

\* the function returned: what it was called with or what it returned, and
\* whether localStorage threw inside it
Returned(op, arg, threw) ==
    [op |-> op, id |-> 0, arg |-> arg, res |-> TryCatch(threw), threw |-> threw]

\* saved ? JSON.parse(saved) : []
Parsed(slot) == IF slot.saved THEN slot.list ELSE <<>>

\* fault: the list is not cut
Untrimmed(list) == list

\* recent.slice(0, MAX_RECENT)
Trim(list) == SubSeq(list, 1, Min({MAX_RECENT, Len(list)}))

\* what trackUsage(id) stores when Date.now() is timestamp
TrackUpdate(slot, id, timestamp) ==
    LET others == FilterSeq(Parsed(slot), {c \in Range(Parsed(slot)) : c.id # id})
    IN  Saved(Trim(<<[id |-> id, timestamp |-> timestamp]>> \o others))

\* parsed.sort((a, b) => b.timestamp - a.timestamp).map(c => c.id), or [] when
\* nothing is stored or localStorage throws
getRecentIds(slot, threw) ==
    IF threw \/ ~slot.saved THEN <<>>
    ELSE LET sorted == ArraySort(slot.list, [c \in Range(slot.list) |-> 0 - c.timestamp])
         IN  [n \in 1..Len(sorted) |-> sorted[n].id]

AuxFrame ==
    UNCHANGED <<categories, items, logs, prefs, hasBySortIndex, tx, dbvars, localStorage,
                home, detail, dateCall, flowvars>>

\* trackUsage(id): an empty id returns at once; localStorage may throw on the
\* read or on the write, and then nothing is stored
trackUsage(id, threw) ==
    /\ Len(tracked) < MaxTracks
    /\ tracked' = Append(tracked, id)
    /\ recent' = IF id = NoCategory \/ threw THEN recent ELSE TrackUpdate(recent, id, now)
    /\ last' = Returned("recent.trackUsage", id, threw /\ id # NoCategory)
    /\ UNCHANGED <<draft, now>>
    /\ AuxFrame

getRecentIds_call(threw) ==
    /\ last' = Returned("recent.getRecentIds", getRecentIds(recent, threw), threw)
    /\ UNCHANGED <<recent, draft, now, tracked>>
    /\ AuxFrame

\* the greatest timestamp stored, or 0
LatestStamp == Max({0} \cup {Parsed(recent)[n].timestamp : n \in 1..Len(Parsed(recent))})

\* time passes, or the clock is set forward: Date.now() is later than every
\* timestamp stored
ClockAdvances ==
    /\ now <= LatestStamp
    /\ now' = LatestStamp + 1
    /\ UNCHANGED <<recent, draft, tracked, last>>
    /\ AuxFrame

\* the system clock is set back: Date.now() is earlier than every timestamp
\* stored
ClockSetBack ==
    /\ now > 0
    /\ now' = 0
    /\ UNCHANGED <<recent, draft, tracked, last>>
    /\ AuxFrame

\* saveDraft(draft)
saveDraft(value, threw) ==
    /\ draft' = IF threw THEN draft ELSE value
    /\ last' = Returned("saveDraft", value, threw)
    /\ UNCHANGED <<recent, now, tracked>>
    /\ AuxFrame

\* getDraft(): the draft stored, or null
getDraft(threw) ==
    /\ last' = Returned("getDraft", IF threw THEN NoItem ELSE draft, threw)
    /\ UNCHANGED <<recent, draft, now, tracked>>
    /\ AuxFrame

\* clearDraft()
clearDraft(threw) ==
    /\ draft' = IF threw THEN draft ELSE NoItem
    /\ last' = Returned("clearDraft", 0, threw)
    /\ UNCHANGED <<recent, now, tracked>>
    /\ AuxFrame

\* await tx.done and the statements after it, when localStorage.setItem
\* throws: try { ... } catch { }
prefsRepo_set_done_throwing ==
    /\ tx.op = "prefs.set"
    /\ "theme" \in DOMAIN tx.updates
    /\ prefs' = tx.work.prefs
    /\ tx' = NoTx
    /\ last' = Returned("prefs.set", tx.updates, TRUE)
    /\ UNCHANGED <<categories, items, logs, hasBySortIndex, dbvars, localStorage, pagevars,
                   flowvars>>

----------------------------------------------------------------------------
(* SettingsSheet: handleDeleteCategory *)

\* categories.find(c => c.name === 'Uncategorized'): the first one in the
\* listed order, or undefined
FindUncategorized(list) ==
    IF \E n \in 1..Len(list) : list[n].name = "Uncategorized"
    THEN list[Min({n \in 1..Len(list) : list[n].name = "Uncategorized"})]
    ELSE undefined

\* handleDeleteCategory(id) up to the requests of categoriesRepo.delete; the
\* hook states categories and items are the stored ones.  When the category
\* has items and the user confirms, the fallback is found, or created by
\* categoriesRepo.create('Uncategorized'), and delete(id, fallback.id) is
\* issued; when it has none, delete(id) is.  The steps of delete follow.
handleDeleteCategory(id, confirmed) ==
    /\ Idle
    /\ id \in DOMAIN categories
    /\ LET itemsInCat == {i \in DOMAIN items : items[i].categoryId = id}
           found == FindUncategorized(categoriesRepo_list)
           sortOrder == NextSortOrder(categoriesRepo_list)
       IN  IF ~confirmed
           THEN /\ last' = Done("handleDeleteCategory", id, "declined")
                /\ UNCHANGED <<categories, tx>>
           ELSE IF itemsInCat = {}
           THEN /\ tx' = Transaction("categories.delete", id, NoRepl,
                                     categoriesRepo_delete_scope)
                /\ last' = Pending("categories.delete", id, NoRepl)
                /\ UNCHANGED categories
           ELSE IF found # undefined
           THEN /\ tx' = Transaction("categories.delete", id, found.id,
                                     categoriesRepo_delete_scope)
                /\ last' = Pending("categories.delete", id, found.id)
                /\ UNCHANGED categories
           ELSE /\ sortOrder <= MaxSort
                /\ \E fallback \in FreshCatIds :
                    LET created == Put(categories,
                                       NewCategory(fallback, "Uncategorized", sortOrder,
                                                   NoColor))
                    IN  /\ categories' = created
                        /\ tx' = [op |-> "categories.delete", id |-> id,
                                  repl |-> fallback, pos |-> 0,
                                  work |-> [categories |-> created, items |-> items]]
                        /\ last' = Pending("categories.delete", id, fallback)
    /\ UNCHANGED <<items, logs, prefs, hasBySortIndex, dbvars, localStorage, pagevars, flowvars>>

----------------------------------------------------------------------------
(* Calls in flight: logsRepo.add and ItemCard.triggerCompletion *)

\* A call of an async function runs to its first await that yields and goes
\* on in a later task; code of other handlers, of other calls and of other
\* tabs runs in between.  calls holds the calls that have been invoked and
\* have not issued their request to the database yet.

FlowFrame ==
    UNCHANGED <<categories, items, logs, prefs, hasBySortIndex, tx, last, dbvars,
                localStorage, pagevars, sheets, form>>

\* logsRepo.add(itemId, date) is invoked, for an item that is stored, and
\* waits at const db = await getDB()
logsRepo_add_invoke(itemId, date) ==
    /\ Cardinality(calls) < MaxPending
    /\ itemId \in DOMAIN items
    /\ calls' = calls \cup {[op |-> "logs.add", itemId |-> itemId, date |-> date]}
    /\ FlowFrame

\* triggerCompletion() of the card of a stored item: the two nested
\* setTimeout(..., 300) are set
ItemCard_triggerCompletion(itemId) ==
    /\ Cardinality(calls) < MaxPending
    /\ itemId \in DOMAIN items
    /\ calls' = calls \cup {[op |-> "triggerCompletion", itemId |-> itemId]}
    /\ FlowFrame

\* the second timer fires: logsRepo.add(item.id, getTodayDateString()) is
\* invoked with the id the card was rendered with
ItemCard_timeout(today) ==
    \E call \in calls :
        /\ call.op = "triggerCompletion"
        /\ calls' = (calls \ {call})
                        \cup {[op |-> "logs.add", itemId |-> call.itemId, date |-> today]}
        /\ FlowFrame

\* await db.add('logs', newLog): the request runs in a transaction of its
\* own on 'logs', which the engine starts when no transaction over 'logs' is
\* running, and the object store checks the key of the record and nothing
\* else
logsRepo_add_resume ==
    /\ Idle
    /\ \E call \in calls, id \in FreshLogIds :
        /\ call.op = "logs.add"
        /\ logs' = Put(logs, NewLog(id, call.itemId, call.date, NoNote))
        /\ last' = Done("logs.add", id, call.itemId)
        /\ calls' = calls \ {call}
    /\ UNCHANGED <<categories, items, prefs, hasBySortIndex, tx, dbvars, localStorage,
                   pagevars, sheets, form>>

----------------------------------------------------------------------------
(* SettingsSheet: handleApplyTheme *)

\* the prefsRepo.set calls that wait for the database, oldest first: the
\* engine runs the transactions over 'prefs' in the order of the calls
WaitingSets == {call \in calls : call.op = "prefs.set"}

\* handleApplyTheme(theme): applyTheme(theme) sets the class of the document
\* and writes the hint, then updatePrefs({ theme }) calls prefsRepo.set,
\* which waits at await getDB()
handleApplyTheme(theme) ==
    /\ Cardinality(calls) < MaxPending
    /\ localStorage' = theme
    /\ calls' = calls \cup {[op |-> "prefs.set", updates |-> [theme |-> theme],
                             seq |-> Cardinality(WaitingSets) + 1]}
    /\ UNCHANGED <<categories, items, logs, prefs, hasBySortIndex, tx, last, dbvars,
                   pagevars, sheets, form>>

\* the oldest waiting prefsRepo.set issues the requests of its transaction
\* (see prefsRepo_set_begin); prefsRepo_set_done or TxAbort ends it
prefsRepo_set_resume ==
    /\ Idle
    /\ \E call \in WaitingSets :
        /\ call.seq = 1
        /\ tx' = [op |-> "prefs.set", id |-> 0, updates |-> call.updates, pos |-> 0,
                  work |-> [s \in {"prefs"} |->
                               PutSettings(prefs, Merge(prefsRepo_get, call.updates))]]
        /\ last' = Pending("prefs.set", 0, call.updates)
        /\ calls' = (calls \ WaitingSets)
                        \cup {[other EXCEPT !.seq = @ - 1] : other \in WaitingSets \ {call}}
    /\ UNCHANGED <<categories, items, logs, prefs, hasBySortIndex, dbvars, localStorage,
                   pagevars, sheets, form>>

----------------------------------------------------------------------------
(* FilterContext.tsx: FilterProvider *)

\* fault: the other two sheets are left as they are
OpenSheetOnly(state, name) == [state EXCEPT ![name] = TRUE]

\* the three setState calls of an open handler, batched into one render: the
\* other two flags false, the flag of the sheet true
OpenSheet(state, name) == [sheet \in DOMAIN state |-> sheet = name]

SheetFrame ==
    UNCHANGED <<categories, items, logs, prefs, hasBySortIndex, tx, dbvars, localStorage,
                pagevars, calls, form>>

openFilterSheet ==
    /\ sheets' = OpenSheet(sheets, "filter")
    /\ last' = Done("openFilterSheet", 0, 0)
    /\ SheetFrame

openSortSheet ==
    /\ sheets' = OpenSheet(sheets, "sort")
    /\ last' = Done("openSortSheet", 0, 0)
    /\ SheetFrame

openSettingsSheet ==
    /\ sheets' = OpenSheet(sheets, "settings")
    /\ last' = Done("openSettingsSheet", 0, 0)
    /\ SheetFrame

closeFilterSheet ==
    /\ sheets' = [sheets EXCEPT !.filter = FALSE]
    /\ last' = Done("closeFilterSheet", 0, 0)
    /\ SheetFrame

closeSortSheet ==
    /\ sheets' = [sheets EXCEPT !.sort = FALSE]
    /\ last' = Done("closeSortSheet", 0, 0)
    /\ SheetFrame

closeSettingsSheet ==
    /\ sheets' = [sheets EXCEPT !.settings = FALSE]
    /\ last' = Done("closeSettingsSheet", 0, 0)
    /\ SheetFrame

----------------------------------------------------------------------------
(* NewItemSheet: the draft effect and handleSubmit *)

\* The titles typed into the form: empty, blank, or a word.
FormTitles == {<<>>, <<" ">>, <<"a">>}
FormDrafts == [title : FormTitles, categoryId : {NoCategory, 1}]

\* JSON.stringify({ title, categoryId }): the text of the draft
stringify(value) ==
    CASE value = [title |-> <<>>, categoryId |-> NoCategory] ->
             "{\"title\":\"\",\"categoryId\":\"\"}"
      [] value = [title |-> <<" ">>, categoryId |-> NoCategory] ->
             "{\"title\":\" \",\"categoryId\":\"\"}"
      [] value = [title |-> <<"a">>, categoryId |-> NoCategory] ->
             "{\"title\":\"a\",\"categoryId\":\"\"}"
      [] value = [title |-> <<>>, categoryId |-> 1] ->
             "{\"title\":\"\",\"categoryId\":\"1\"}"
      [] value = [title |-> <<" ">>, categoryId |-> 1] ->
             "{\"title\":\" \",\"categoryId\":\"1\"}"
      [] value = [title |-> <<"a">>, categoryId |-> 1] ->
             "{\"title\":\"a\",\"categoryId\":\"1\"}"

\* JSON.parse(saved)
parse(text) == CHOOSE value \in FormDrafts : stringify(value) = text

\* the callback of the draft timer:
\* if (title.trim() || categoryId) saveDraft({ title, categoryId })
\* else clearDraft()
DraftTimerWrites(slot, title, categoryId) ==
    IF trim(title) # <<>> \/ categoryId # NoCategory
    THEN stringify([title |-> title, categoryId |-> categoryId])
    ELSE NoItem

\* setTimeout(..., 500) of the draft effect, with the title and the category
\* of the render that set it
DraftTimer(title, categoryId) == [set |-> TRUE, title |-> title, categoryId |-> categoryId]

FormFrame ==
    UNCHANGED <<categories, items, logs, prefs, hasBySortIndex, tx, last, dbvars,
                localStorage, recent, now, tracked, home, detail, dateCall, calls, sheets>>

\* isOpen becomes true by a click: the first effect loads the draft into the
\* title and the category, or empties them, and the draft effect of the
\* render that follows sets its timer
openNewItemSheet ==
    /\ ~form.isOpen /\ form.rendered
    /\ LET loaded == IF draft # NoItem THEN parse(draft)
                     ELSE [title |-> <<>>, categoryId |-> NoCategory]
       IN  form' = [isOpen |-> TRUE, title |-> loaded.title,
                    categoryId |-> loaded.categoryId,
                    timer |-> DraftTimer(loaded.title, loaded.categoryId),
                    rendered |-> TRUE]
    /\ UNCHANGED draft
    /\ FormFrame

\* onChange of the title input: the cleanup of the draft effect clears the
\* timer and the effect sets a new one
setTitle(title) ==
    /\ form.isOpen
    /\ title # form.title
    /\ form' = [form EXCEPT !.title = title, !.timer = DraftTimer(title, form.categoryId)]
    /\ UNCHANGED draft
    /\ FormFrame

\* a category chip is clicked, or the picker selects
setCategoryId(categoryId) ==
    /\ form.isOpen
    /\ categoryId # form.categoryId
    /\ form' = [form EXCEPT !.categoryId = categoryId,
                            !.timer = DraftTimer(form.title, categoryId)]
    /\ UNCHANGED draft
    /\ FormFrame

\* 500 ms have passed since the timer was set and it has not been cleared
NewItemSheet_draftTimer ==
    /\ form.timer.set
    /\ draft' = DraftTimerWrites(draft, form.timer.title, form.timer.categoryId)
    /\ form' = [form EXCEPT !.timer = NoTimer]
    /\ FormFrame

\* onClose from the backdrop, the close button or Escape: isOpen becomes
\* false in the render of the event, and the cleanup clears the timer
closeNewItemSheet ==
    /\ form.isOpen
    /\ form' = [form EXCEPT !.isOpen = FALSE, !.timer = NoTimer]
    /\ UNCHANGED draft
    /\ FormFrame

\* handleSubmit up to await itemsRepo.create(...): a blank title returns
handleSubmit_begin ==
    /\ form.isOpen
    /\ trim(form.title) # <<>>
    /\ calls = {}
    /\ calls' = {[op |-> "handleSubmit", title |-> trim(form.title),
                  categoryId |-> form.categoryId]}
    /\ UNCHANGED <<draft, form>>
    /\ UNCHANGED <<categories, items, logs, prefs, hasBySortIndex, tx, last, dbvars,
                   localStorage, recent, now, tracked, home, detail, dateCall, sheets>>

\* the item is stored; no date was entered; trackUsage(categoryId) when a
\* category is chosen; clearDraft(); onSave; onClose(), which sets isOpen
\* false outside an event, so that the render and the cleanup of the effects
\* come in a later task
handleSubmit_resume ==
    /\ Idle
    /\ \E call \in calls, id \in FreshItemIds :
        /\ call.op = "handleSubmit"
        /\ items' = Put(items, NewItem(id, call))
        /\ recent' = IF call.categoryId # NoCategory
                     THEN TrackUpdate(recent, call.categoryId, now) ELSE recent
        /\ tracked' = IF call.categoryId # NoCategory
                      THEN Append(tracked, call.categoryId) ELSE tracked
        /\ draft' = NoItem
        /\ form' = [form EXCEPT !.isOpen = FALSE, !.rendered = ~form.isOpen]
        /\ last' = Done("handleSubmit", id, call.title)
        /\ calls' = calls \ {call}
    /\ UNCHANGED <<categories, logs, prefs, hasBySortIndex, tx, dbvars, localStorage,
                   now, home, detail, dateCall, sheets>>

\* the render after onClose() and its effects: the cleanup of the draft
\* effect clears the timer
NewItemSheet_effects ==
    /\ ~form.rendered
    /\ form' = [form EXCEPT !.rendered = TRUE, !.timer = NoTimer]
    /\ UNCHANGED draft
    /\ FormFrame

----------------------------------------------------------------------------
(* categoriesRepo.create, call by call *)

CreateCalls == {call \in calls : call.op = "categories.create"}

\* create(name, color) is called; it awaits getDB()
categoriesRepo_create_invoke(name, color) ==
    /\ Cardinality(calls) < MaxPending
    /\ LET seq == Min((1..MaxPending) \ {call.seq : call \in CreateCalls})
       IN  calls' = calls \cup {[op |-> "categories.create", name |-> name, color |-> color,
                                 listed |-> FALSE, sortOrder |-> 0, seq |-> seq]}
    /\ UNCHANGED <<categories, items, logs, prefs, hasBySortIndex, tx, last, dbvars,
                   localStorage, pagevars, sheets, form>>

\* const categories = await this.list(); const sortOrder = ...
categoriesRepo_create_list ==
    /\ Idle
    /\ \E call \in CreateCalls :
        /\ ~call.listed
        /\ calls' = (calls \ {call}) \cup
                    {[call EXCEPT !.listed = TRUE,
                                  !.sortOrder = NextSortOrder(categoriesRepo_list)]}
    /\ UNCHANGED <<categories, items, logs, prefs, hasBySortIndex, tx, last, dbvars,
                   localStorage, pagevars, sheets, form>>

\* await db.add('categories', newCategory), with the sortOrder computed from
\* the list the call read
categoriesRepo_create_add ==
    /\ Idle
    /\ \E call \in CreateCalls, id \in FreshCatIds :
        /\ call.listed
        /\ categories' = Put(categories, NewCategory(id, call.name, call.sortOrder, call.color))
        /\ last' = Done("categories.create", id, call.name)
        /\ calls' = calls \ {call}
    /\ UNCHANGED <<items, logs, prefs, hasBySortIndex, tx, dbvars, localStorage, pagevars,
                   sheets, form>>

----------------------------------------------------------------------------
(* A repository operation using the handle it awaited *)

\* const db = await getDB(); ... await db.add(...): the operation whose
\* getDB() was the call-th of the page issues a request on the connection it
\* was given. A connection that has been closed throws InvalidStateError.
StoreRequest(call) ==
    /\ call \in DOMAIN got
    /\ opens[got[call]] \in {"resolved", "closed"}
    /\ last' = IF opens[got[call]] = "resolved"
               THEN Done("request", got[call], call)
               ELSE Failed("request", got[call], call)
    /\ UNCHANGED <<categories, items, logs, prefs, hasBySortIndex, tx, dbvars,
                   localStorage, pagevars, flowvars>>

----------------------------------------------------------------------------
(* Specifications *)

NoCall == Done("none", 0, 0)

\* a database that getDB() has created and nothing has written to yet
InitEmpty0 ==
    /\ categories = EmptyStore
    /\ items = EmptyStore
    /\ logs = EmptyStore
    /\ prefs = EmptyStore
    /\ tx = NoTx
    /\ last = NoCall

InitEmpty ==
    /\ InitEmpty0
    /\ Opened

Titles == {"A", "B"}
CatNames == Range(SeedNames)

\* The item and log stores: completions are logged, edited, undone, and items
\* are deleted with their logs.
Init ==
    /\ InitEmpty
    /\ hasBySortIndex = TRUE

Next ==
    \/ itemsRepo_create([title |-> "A", categoryId |-> NoCategory])
    \/ \E itemId \in DOMAIN items, date \in Dates : logsRepo_add(itemId, date, NoNote)
    \/ \E id \in LogIds, date \in Dates : logsRepo_update(id, [date |-> date])
    \/ \E id \in LogIds : logsRepo_delete(id)
    \/ \E id \in ItemIds : itemsRepo_delete_begin(id)
    \/ itemsRepo_delete_cascade
    \/ itemsRepo_delete_finish
    \/ TxAbort

Spec == Init /\ [][Next]_vars

\* The category store alone, with or without its 'by-sort' index.
InitCat ==
    /\ InitEmpty
    /\ hasBySortIndex \in BOOLEAN

\* the id lists given to reorder: any ids, stored or not, repeated or not
IdLists == UNION {[1..n -> CatIds] : n \in 0..MaxReorderLen}

NextCat ==
    \/ categoriesRepo_create("Home", NoColor)
    \/ \E idsInOrder \in IdLists : categoriesRepo_reorder(idsInOrder)
    \/ \E id \in CatIds : categoriesRepo_delete_begin(id, NoRepl)
    \/ categoriesRepo_delete_finish
    \/ TxAbort

SpecCat == InitCat /\ [][NextCat]_vars

\* Category deletion with its items: the app seeds the default categories,
\* items are filed under them, categories are deleted with or without a
\* replacement, and a request of the transaction may fail at any point.
NextReassign ==
    \/ seedDefaults
    \/ \E categoryId \in DOMAIN categories \cup {NoCategory} :
           itemsRepo_create([title |-> "A", categoryId |-> categoryId])
    \/ \E id \in DOMAIN categories, repl \in DOMAIN categories \cup {NoRepl} :
           categoriesRepo_delete_begin(id, repl)
    \/ categoriesRepo_delete_reassign
    \/ categoriesRepo_delete_finish
    \/ TxAbort

SpecReassign == Init /\ [][NextReassign]_vars

\* Both cascading deletes on a database in use: every item is filed under one
\* of two categories and every log belongs to one of the items.
CascadeItems ==
    {[id \in ItemIds |-> NewItem(id, [title |-> "A", categoryId |-> filed[id]])] :
        filed \in [ItemIds -> {1, 2}]}

CascadeLogs ==
    {[id \in LogIds |-> NewLog(id, owner[id], 1, NoNote)] : owner \in [LogIds -> ItemIds]}

InitCascade ==
    /\ categories = Put(Put(EmptyStore, NewCategory(1, "Home", 0, NoColor)),
                        NewCategory(2, "Car", 1, NoColor))
    /\ items \in CascadeItems
    /\ logs \in CascadeLogs
    /\ prefs = [k \in {"settings"} |-> DEFAULT_PREFERENCES]
    /\ hasBySortIndex = TRUE
    /\ tx = NoTx
    /\ last = NoCall
    /\ Opened

NextCascade ==
    \/ \E id \in DOMAIN categories, repl \in DOMAIN categories \cup {NoRepl} :
           categoriesRepo_delete_begin(id, repl)
    \/ categoriesRepo_delete_reassign
    \/ categoriesRepo_delete_finish
    \/ \E id \in DOMAIN items : itemsRepo_delete_begin(id)
    \/ itemsRepo_delete_cascade
    \/ itemsRepo_delete_finish
    \/ TxAbort

SpecCascade == InitCascade /\ [][NextCascade]_vars

\* Seeding at every start of the app, between edits of the category list.
NextSeed ==
    \/ seedDefaults
    \/ \E name \in CatNames : categoriesRepo_create(name, NoColor)
    \/ \E id \in CatIds : categoriesRepo_delete_begin(id, NoRepl)
    \/ categoriesRepo_delete_finish
    \/ TxAbort

SpecSeed == Init /\ [][NextSeed]_vars

\* Merge-patch updates on a database in use: two categories, one or two
\* items, one or two logs.  The updates are partial records over the fields
\* other than the key, among them the shapes the call sites pass: { name },
\* { color }, { title, categoryId }, { date, note }.
PatchCategories ==
    Put(Put(EmptyStore, NewCategory(1, "Home", 0, NoColor)),
        NewCategory(2, "Car", 1, NoColor))

PatchItems ==
    {Put(EmptyStore, NewItem(1, [title |-> "A", categoryId |-> 1])),
     Put(Put(EmptyStore, NewItem(1, [title |-> "A", categoryId |-> 1])),
         NewItem(2, [title |-> "B", categoryId |-> 2]))}

PatchLogs ==
    {Put(EmptyStore, NewLog(1, 1, 1, NoNote)),
     Put(Put(EmptyStore, NewLog(1, 1, 1, NoNote)), NewLog(2, 1, 2, "note"))}

InitPatch ==
    /\ categories = PatchCategories
    /\ items \in PatchItems
    /\ logs \in PatchLogs
    /\ prefs = PutSettings(EmptyStore, DEFAULT_PREFERENCES)
    /\ hasBySortIndex = TRUE
    /\ tx = NoTx
    /\ last = NoCall
    /\ Opened

CategoryUpdates ==
    {[name |-> name] : name \in CatNames} \cup {[color |-> DEFAULT_CATEGORY_COLORS[1]]}

ItemUpdates ==
    {[title |-> "A"], [title |-> "B", categoryId |-> 2]}

LogUpdates ==
    {[date |-> date, note |-> "note"] : date \in Dates} \cup {[note |-> NoNote]}

NextPatch ==
    \/ \E id \in CatIds, updates \in CategoryUpdates : categoriesRepo_update(id, updates)
    \/ \E id \in ItemIds, updates \in ItemUpdates : itemsRepo_update(id, updates)
    \/ \E id \in LogIds, updates \in LogUpdates : logsRepo_update(id, updates)

SpecPatch == InitPatch /\ [][NextPatch]_vars

\* The first load of the page: no database is stored and getDB() has not been
\* called.
InitClosed ==
    /\ InitEmpty0
    /\ hasBySortIndex = FALSE
    /\ dbPromise = NoPromise
    /\ opens = <<>>
    /\ got = <<>>
    /\ disk = NoDatabase
    /\ clearCall = NoTx
    /\ deleteRequest = "none"
    /\ otherTab = FALSE
    /\ localStorage = NoTheme
    /\ PageIdle

\* Call sites asking for the handle while opens succeed and fail, over
\* several loads of the page.
NextOpen ==
    \/ getDB
    \/ \E o \in DOMAIN opens : OpenSucceeds(o, {})
    \/ \E o \in DOMAIN opens : OpenFails(o)
    \/ \E o \in DOMAIN opens : OpenCatch(o)
    \/ Reload

SpecOpen == InitClosed /\ [][NextOpen]_vars

\* "Clear All Data" on a database in use, with call sites that keep asking
\* for the handle, another tab that may hold the database open, and seeding
\* at the next start.
NextClear ==
    \/ getDB
    \/ \E o \in DOMAIN opens : OpenSucceeds(o, {})
    \/ \E o \in DOMAIN opens : OpenFails(o)
    \/ \E o \in DOMAIN opens : OpenCatch(o)
    \/ Reload
    \/ Connected /\ seedDefaults
    \/ clearDatabase_begin
    \/ clearDatabase_close
    \/ clearDatabase_rejected
    \/ DeleteDatabaseSuccess
    \/ DeleteDatabaseBlocked
    \/ DeleteDatabaseError
    \/ OtherTabOpens
    \/ OtherTabCloses

SpecClear == InitPatch /\ [][NextClear]_vars

\* Databases left by earlier builds of the app: any version up to the current
\* one (0 is no database), any of the four object stores, any of the indexes
\* of the stores present, categories written before colors existed.
LegacySchemas ==
    {NoDatabase} \cup
    {[version |-> version, stores |-> stores, indexes |-> indexes] :
        version \in 1..DB_VERSION, stores \in SUBSET StoreNames,
        indexes \in SUBSET (IndexNames \ {"by-sort"})}

LegacyCategory(id, name, color) ==
    [id |-> id, name |-> name, sortOrder |-> id - 1, color |-> color]

LegacyCategories ==
    {EmptyStore} \cup
    {Put(Put(EmptyStore, LegacyCategory(1, "Car", car)), LegacyCategory(2, "Custom", custom)) :
        car \in {NoColor, DEFAULT_CATEGORY_COLORS[1]},
        custom \in {NoColor, DEFAULT_CATEGORY_COLORS[1]}}

InitLegacy ==
    /\ disk \in LegacySchemas
    /\ \A indexName \in disk.indexes : StoreOf(indexName) \in disk.stores
    /\ hasBySortIndex \in (IF "categories" \in disk.stores THEN BOOLEAN ELSE {FALSE})
    /\ categories \in (IF "categories" \in disk.stores THEN LegacyCategories ELSE {EmptyStore})
    /\ items = IF "items" \in disk.stores
               THEN Put(EmptyStore, NewItem(1, [title |-> "A", categoryId |-> 1]))
               ELSE EmptyStore
    /\ logs = IF "logs" \in disk.stores
              THEN Put(EmptyStore, NewLog(1, 1, 1, NoNote))
              ELSE EmptyStore
    /\ prefs = IF "prefs" \in disk.stores
               THEN PutSettings(EmptyStore, DEFAULT_PREFERENCES)
               ELSE EmptyStore
    /\ tx = NoTx
    /\ last = NoCall
    /\ dbPromise = NoPromise
    /\ opens = <<>>
    /\ got = <<>>
    /\ clearCall = NoTx
    /\ deleteRequest = "none"
    /\ otherTab = FALSE
    /\ localStorage = NoTheme
    /\ PageIdle

\* The app is started on such a database, and started again.
NextUpgrade ==
    \/ getDB
    \/ \E o \in DOMAIN opens : OpenSucceeds(o, {})
    \/ Reload

SpecUpgrade == InitLegacy /\ [][NextUpgrade]_vars

\* The same starts on a database of an older version, with an engine whose
\* createIndex may throw inside ensureIndex, for one index per upgrade.
InitOutdated == InitLegacy /\ disk.version < DB_VERSION

IndexFaults == {{}} \cup {{indexName} : indexName \in IndexNames}

NextFaulty ==
    \/ getDB
    \/ \E o \in DOMAIN opens, faults \in IndexFaults : OpenSucceeds(o, faults)
    \/ Reload

SpecFaulty == InitOutdated /\ [][NextFaulty]_vars

\* The settings sheet: theme and density are changed, one or both at a time,
\* on a database that may not have been seeded yet.  The engine completes
\* every write it was given, after a time of its own choosing.
Themes == {"system", "light", "dark"}
Densities == {"regular", "compact"}

PrefsUpdates ==
    {[theme |-> theme] : theme \in Themes}
    \cup {[density |-> density] : density \in Densities}
    \cup {[theme |-> theme, density |-> density] : theme \in Themes, density \in Densities}

NextPrefs ==
    \/ seedDefaults
    \/ \E updates \in PrefsUpdates : prefsRepo_set_begin(updates)
    \/ prefsRepo_set_done

SpecPrefs == Init /\ [][NextPrefs]_vars /\ WF_vars(prefsRepo_set_done)

\* One caller working on one collection of a database in use, awaiting each
\* call before the next: the categories, the items, or the logs.
NextSession ==
    \/ /\ items \in PatchItems /\ logs \in PatchLogs
       /\ \/ categoriesRepo_create("Home", NoColor)
          \/ \E id \in CatIds : categoriesRepo_update(id, [name |-> "Home"])
          \/ \E idsInOrder \in IdLists : categoriesRepo_reorder(idsInOrder)
    \/ /\ categories = PatchCategories /\ logs \in PatchLogs
       /\ \/ itemsRepo_create([title |-> "A", categoryId |-> 1])
          \/ \E id \in ItemIds : itemsRepo_update(id, [title |-> "B", categoryId |-> 2])
    \/ /\ categories = PatchCategories /\ items \in PatchItems
       /\ \/ \E itemId \in DOMAIN items, date \in Dates : logsRepo_add(itemId, date, NoNote)
          \/ \E id \in LogIds, date \in Dates : logsRepo_update(id, [date |-> date])
          \/ \E id \in LogIds : logsRepo_delete(id)

SpecSession == InitPatch /\ [][NextSession]_vars

\* The Home page with its items and their last logs loaded: the sort method
\* and the selected category are changed.
HomeTitles == {<<"a", "b">>, <<"B">>, <<"b">>}

\* the items as itemsRepo.getAll() returns them, in the order of their ids
ShownItems ==
    UNION {{[id \in 1..n |-> NewItem(id, [title |-> title[id], categoryId |-> 1 + (id % 2)])] :
               title \in [1..n -> HomeTitles]} : n \in 1..MaxShown}

\* lastLogsMap[item.id] = logs[0]: no log, or a last log of one of two dates
LastLogMaps(itemList) ==
    {[id \in 1..Len(itemList) |->
         IF date[id] = 0 THEN undefined ELSE NewLog(id, id, date[id], NoNote)] :
        date \in [1..Len(itemList) -> {0, 1, 2}]}

InitSort ==
    /\ InitEmpty0
    /\ hasBySortIndex = TRUE
    /\ OpenedDatabase
    /\ SlotsEmpty
    /\ detail = Unmounted
    /\ dateCall = NoDateCall
    /\ \E itemList \in ShownItems : \E lastLogs \in LastLogMaps(itemList) :
           home = HomeState(itemList, <<>>, <<>>, lastLogs, NoSelection,
                            "recently-done", <<>>, TRUE)

NextSort ==
    \/ \E sortMethod \in SortMethods : setSortMethod(sortMethod)
    \/ \E selectedCategory \in {NoSelection, 2} : setSelectedCategory(selectedCategory)

SpecSort == InitSort /\ [][NextSort]_vars

\* The Home page with one or two items: text is searched for and a category
\* is selected.  Two categories are stored; category 3 is one that an item
\* still names after it was deleted.
FilterTitles == {<<"A", "b">>, <<"c", " ", "a">>}

FilterCategories ==
    << [id |-> 1, name |-> <<"C", "a", "b">>], [id |-> 2, name |-> <<"B">>] >>

FilterItems ==
    UNION {{[id \in 1..n |-> NewItem(id, [title |-> title[id], categoryId |-> filed[id]])] :
               title \in [1..n -> FilterTitles], filed \in [1..n -> 1..3]} : n \in 1..2}

\* the logs of an item, newest first: none, one without a note, one with a
\* note, or both
FilterLogs(id) ==
    {<<>>,
     <<[id |-> id, itemId |-> id, date |-> 1]>>,
     <<NewLog(id, id, 1, <<"b", "A">>)>>,
     <<[id |-> id, itemId |-> id, date |-> 2], NewLog(id + 2, id, 1, <<"c">>)>>}

AllLogMaps(itemList) ==
    {allLogs \in [1..Len(itemList) -> UNION {FilterLogs(id) : id \in 1..Len(itemList)}] :
        \A id \in 1..Len(itemList) : allLogs[id] \in FilterLogs(id)}

SearchQueries ==
    {<<>>, <<" ">>, <<"a">>, <<"A", "B">>, <<" ", "c", "a", "b", " ">>, <<"b", "a">>,
     <<"c", "c">>}

InitFilter ==
    /\ InitEmpty0
    /\ hasBySortIndex = TRUE
    /\ OpenedDatabase
    /\ SlotsEmpty
    /\ detail = Unmounted
    /\ dateCall = NoDateCall
    /\ \E itemList \in FilterItems : \E allLogs \in AllLogMaps(itemList) :
           home = HomeState(itemList, FilterCategories, allLogs,
                            [id \in 1..Len(itemList) |->
                                IF allLogs[id] = <<>> THEN undefined ELSE allLogs[id][1]],
                            NoSelection, "recently-done", <<>>, TRUE)

NextFilter ==
    \/ \E searchQuery \in SearchQueries : setDebouncedSearchQuery(searchQuery)
    \/ \E selectedCategory \in {NoSelection} \cup (1..3) :
           setSelectedCategory(selectedCategory)

SpecFilter == InitFilter /\ [][NextFilter]_vars

\* Calls of the date helpers: day differences over dates on both sides of a
\* month end, a leap day, a year end, a change of the clocks and the year
\* 100, in time zones that skip the midnight of none or some of them, and
\* the text for every age in days up to two years and a day.
ModelDates ==
    {DateOnly(2023, 1, 31), DateOnly(2023, 2, 1),
     DateOnly(2023, 12, 31), DateOnly(2024, 1, 1),
     DateOnly(2024, 2, 28), DateOnly(2024, 2, 29), DateOnly(2024, 3, 1),
     DateOnly(2024, 3, 10), DateOnly(2024, 3, 11),
     DateOnly(1900, 2, 28), DateOnly(1900, 3, 1),
     DateOnly(99, 12, 31), DateOnly(100, 1, 1)}

SkippedMidnights == SUBSET {DateOnly(2024, 3, 10), DateOnly(2024, 3, 11)}

InitDates ==
    /\ InitEmpty0
    /\ hasBySortIndex = TRUE
    /\ OpenedDatabase
    /\ SlotsEmpty
    /\ home = Unmounted
    /\ detail = Unmounted
    /\ dateCall \in
           {[fn |-> "diffDaysDateOnly", from |-> fromDateStr, to |-> toDateStr] :
               fromDateStr \in ModelDates, toDateStr \in ModelDates}
           \cup {[fn |-> "formatAgo", diffDays |-> diffDays] : diffDays \in (0 - 1)..MaxAgo}

NextDates ==
    \/ \E skipped \in SkippedMidnights : diffDaysDateOnly_call(skipped)
    \/ formatAgo_call

SpecDates == InitDates /\ [][NextDates]_vars

\* The detail page of an item with up to MaxHistory logs, as
\* logsRepo.listByItem returns them: newest first.  The dates are of the
\* years that diffDaysDateOnly reads as written.
DetailDates ==
    {DateOnly(2023, 12, 31), DateOnly(2024, 1, 1), DateOnly(2024, 2, 29),
     DateOnly(2024, 3, 1), DateOnly(2024, 3, 5), DateOnly(2024, 3, 10),
     DateOnly(2024, 3, 11)}

\* the place of a zero-padded date string among the strings
DateString(date) == date.year * 10000 + date.month * 100 + date.day

DetailLogs ==
    UNION {{[n \in 1..len |-> NewLog(n, 1, date[n], NoNote)] :
               date \in {d \in [1..len -> DetailDates] :
                            \A n \in 1..(len - 1) :
                                DateString(d[n]) >= DateString(d[n + 1])}} :
           len \in 0..MaxHistory}

InitDetail ==
    /\ InitEmpty0
    /\ hasBySortIndex = TRUE
    /\ OpenedDatabase
    /\ SlotsEmpty
    /\ home = Unmounted
    /\ dateCall = NoDateCall
    /\ detail \in {[logs |-> logList] : logList \in DetailLogs}

NextDetail == \E skipped \in SkippedMidnights : ItemDetailPage_stats(skipped)

SpecDetail == InitDetail /\ [][NextDetail]_vars

\* The recent categories after ten calls of trackUsage, one per millisecond:
\* of ten ids, of nine, of one, or of the empty id alone.  Two more calls
\* follow, of an id stored, a new id or the empty id, while the clock runs,
\* stands or is set back.
RecentHistories ==
    {[n \in 1..MAX_RECENT |->
         IF n <= MAX_RECENT - k THEN (IF k = 0 THEN NoCategory ELSE 1)
         ELSE n - (MAX_RECENT - k)] : k \in {0, 1, MAX_RECENT - 1, MAX_RECENT}}

RECURSIVE Replay(_, _)
Replay(history, n) ==
    IF n = 0 THEN NoRecent
    ELSE IF history[n] = NoCategory THEN Replay(history, n - 1)
    ELSE TrackUpdate(Replay(history, n - 1), history[n], n)

InitRecent ==
    /\ InitEmpty0
    /\ hasBySortIndex = TRUE
    /\ OpenedDatabase
    /\ home = Unmounted
    /\ detail = Unmounted
    /\ dateCall = NoDateCall
    /\ draft = NoItem
    /\ tracked \in RecentHistories
    /\ recent = Replay(tracked, MAX_RECENT)
    /\ now = MAX_RECENT

NextRecent ==
    \/ \E id \in {NoCategory, 1, MAX_RECENT + 1} : trackUsage(id, FALSE)
    \/ ClockAdvances
    \/ ClockSetBack

SpecRecent == InitRecent /\ [][NextRecent]_vars

\* A database in use while localStorage works or throws: categories are
\* used, the recent ones are read, a draft is saved, read and cleared, and
\* the theme is set.
Drafts == {"draft A"}

InitStorage ==
    /\ categories = PatchCategories
    /\ items \in PatchItems
    /\ logs \in PatchLogs
    /\ prefs = PutSettings(EmptyStore, DEFAULT_PREFERENCES)
    /\ hasBySortIndex = TRUE
    /\ tx = NoTx
    /\ last = NoCall
    /\ OpenedDatabase
    /\ home = Unmounted
    /\ detail = Unmounted
    /\ dateCall = NoDateCall
    /\ draft = NoItem
    /\ tracked = [n \in 1..MAX_RECENT |-> 1]
    /\ recent = Replay(tracked, MAX_RECENT)
    /\ now = MAX_RECENT

NextStorage ==
    \/ \E id \in {NoCategory, 2}, threw \in BOOLEAN : trackUsage(id, threw)
    \/ \E threw \in BOOLEAN : getRecentIds_call(threw)
    \/ \E value \in Drafts, threw \in BOOLEAN : saveDraft(value, threw)
    \/ \E threw \in BOOLEAN : getDraft(threw)
    \/ \E threw \in BOOLEAN : clearDraft(threw)
    \/ \E theme \in Themes : prefsRepo_set_begin([theme |-> theme])
    \/ prefsRepo_set_done
    \/ prefsRepo_set_done_throwing

SpecStorage == InitStorage /\ [][NextStorage]_vars

\* The settings sheet on a database in use: two categories, the second one
\* named 'Car' or 'Uncategorized', two items filed under them; categories
\* are deleted from the sheet and items are moved between categories.
SettingsCategories ==
    {Put(Put(EmptyStore, NewCategory(1, "Home", 0, NoColor)),
         NewCategory(2, name, 1, NoColor)) : name \in {"Car", "Uncategorized"}}

InitSettings ==
    /\ categories \in SettingsCategories
    /\ items \in CascadeItems
    /\ logs = EmptyStore
    /\ prefs = [k \in {"settings"} |-> DEFAULT_PREFERENCES]
    /\ hasBySortIndex = TRUE
    /\ tx = NoTx
    /\ last = NoCall
    /\ Opened

NextSettings ==
    \/ \E id \in CatIds, confirmed \in BOOLEAN : handleDeleteCategory(id, confirmed)
    \/ categoriesRepo_delete_reassign
    \/ categoriesRepo_delete_finish
    \/ \E id \in ItemIds, categoryId \in DOMAIN categories :
           itemsRepo_update(id, [categoryId |-> categoryId])

SpecSettings == InitSettings /\ [][NextSettings]_vars

\* Items and their logs under calls that overlap: completions are logged
\* from the detail page and by swipes on the cards, logs are edited and
\* undone, and items are deleted with their logs, in this tab or another.
NextOverlap ==
    \/ itemsRepo_create([title |-> "A", categoryId |-> NoCategory])
    \/ \E itemId \in ItemIds, date \in Dates : logsRepo_add_invoke(itemId, date)
    \/ \E itemId \in ItemIds : ItemCard_triggerCompletion(itemId)
    \/ \E today \in Dates : ItemCard_timeout(today)
    \/ logsRepo_add_resume
    \/ \E id \in LogIds, date \in Dates : logsRepo_update(id, [date |-> date])
    \/ \E id \in LogIds : logsRepo_delete(id)
    \/ \E id \in ItemIds : itemsRepo_delete_begin(id)
    \/ itemsRepo_delete_cascade
    \/ itemsRepo_delete_finish

SpecOverlap == Init /\ [][NextOverlap]_vars

\* Theme changes from the settings sheet, one after another or overlapping;
\* the write of a change commits, or a request of it fails.
InitTheme ==
    /\ categories = EmptyStore
    /\ items = EmptyStore
    /\ logs = EmptyStore
    /\ prefs = PutSettings(EmptyStore, DEFAULT_PREFERENCES)
    /\ hasBySortIndex = TRUE
    /\ tx = NoTx
    /\ last = NoCall
    /\ Opened

NextTheme ==
    \/ \E theme \in Themes : handleApplyTheme(theme)
    \/ prefsRepo_set_resume
    \/ prefsRepo_set_done
    \/ TxAbort

SpecTheme == InitTheme /\ [][NextTheme]_vars

\* Updates whose partial carries an id: Partial<Category>, Partial<Item> and
\* Partial<LogEntry> admit the field, with the id of the call, the id of
\* another stored record or an id that is not stored.
RekeyingUpdates(ids) ==
    {[id |-> key] : key \in ids \cup {Max(ids) + 1}}

\* one collection is worked on, the other two are as they were
NextRekey ==
    \/ /\ items \in PatchItems /\ logs \in PatchLogs
       /\ \E id \in CatIds, updates \in RekeyingUpdates(CatIds) \cup {[name |-> "Car"]} :
              categoriesRepo_update(id, updates)
    \/ /\ categories = PatchCategories /\ logs \in PatchLogs
       /\ \E id \in ItemIds, updates \in RekeyingUpdates(ItemIds) \cup {[title |-> "B"]} :
              itemsRepo_update(id, updates)
    \/ /\ categories = PatchCategories /\ items \in PatchItems
       /\ \E id \in LogIds, updates \in RekeyingUpdates(LogIds) \cup {[date |-> 2]} :
              logsRepo_update(id, updates)

SpecRekey == InitPatch /\ [][NextRekey]_vars

\* The Home page with its three sheets: a sheet is opened from the header
\* or closed, whichever are open, the sort sheet changes the sort method and
\* the filter sheet the selected category.
InitSheets ==
    /\ InitEmpty0
    /\ hasBySortIndex = TRUE
    /\ OpenedDatabase
    /\ SlotsEmpty
    /\ detail = Unmounted
    /\ dateCall = NoDateCall
    /\ home = HomeState(<<[id |-> 1, categoryId |-> 1, title |-> <<"b">>],
                          [id |-> 2, categoryId |-> 2, title |-> <<"a">>]>>,
                        <<>>, <<>>, <<undefined, undefined>>, NoSelection,
                        "recently-done", <<>>, TRUE)

NextSheets ==
    \/ openFilterSheet
    \/ openSortSheet
    \/ openSettingsSheet
    \/ closeFilterSheet
    \/ closeSortSheet
    \/ closeSettingsSheet
    \/ sheets.sort /\ \E sortMethod \in SortMethods : setSortMethod(sortMethod)
    \/ sheets.filter /\ \E selectedCategory \in {NoSelection, 1, 2} :
                            setSelectedCategory(selectedCategory)

SpecSheets == InitSheets /\ [][NextSheets]_vars

\* The new-item form: it is opened, the title and the category are edited,
\* the draft timer fires, the form is closed or submitted.
NextForm ==
    \/ openNewItemSheet
    \/ \E title \in FormTitles : setTitle(title)
    \/ \E categoryId \in {NoCategory, 1} : setCategoryId(categoryId)
    \/ NewItemSheet_draftTimer
    \/ closeNewItemSheet
    \/ handleSubmit_begin
    \/ handleSubmit_resume
    \/ NewItemSheet_effects

SpecForm == Init /\ [][NextForm]_vars

\* Calls of categoriesRepo.create that are not awaited one after the other:
\* each reads the list and adds its category when the engine lets it.
NextCreates ==
    \/ \E name \in CatNames : categoriesRepo_create_invoke(name, NoColor)
    \/ categoriesRepo_create_list
    \/ categoriesRepo_create_add

SpecCreates == Init /\ [][NextCreates]_vars

\* Operations that hold the handle while clearDatabase() closes it and the
\* page asks for the handle again.
NextHandles ==
    \/ getDB
    \/ \E o \in DOMAIN opens : OpenSucceeds(o, {})
    \/ clearDatabase_begin
    \/ clearDatabase_close
    \/ DeleteDatabaseSuccess
    \/ \E call \in 1..MaxCalls : StoreRequest(call)

SpecHandles == InitPatch /\ [][NextHandles]_vars

----------------------------------------------------------------------------
(* Properties *)

\* the stored logs of an item
LogsOf(itemId) == {logs[k] : k \in {k \in DOMAIN logs : logs[k].itemId = itemId}}

\* C1 (Spec): once itemsRepo.delete(id) has completed successfully,
\* logsRepo.listByItem(id) returns the empty list and itemsRepo.getAll()
\* holds no item with that id.
C1_CascadeDelete ==
    (last.op = "items.delete" /\ last.res = "ok") =>
        /\ logsRepo_listByItem(last.id) = <<>>
        /\ \A i \in 1..Len(itemsRepo_getAll) : itemsRepo_getAll[i].id # last.id

\* a delete that removed logs of its item has completed, and logs of another
\* item are still stored
C1_Witness ==
    /\ last.op = "items.delete" /\ last.res = "ok" /\ last.arg > 0
    /\ logs # EmptyStore

\* C2 (SpecCascade): a cascading delete is atomic.  From the start of the
\* transaction of itemsRepo.delete or categoriesRepo.delete on, no step other
\* than its successful commit changes the categories, items or logs
\* collection; so when a request fails after some log deletions or item
\* reassignments, the three collections hold what they held before the call.
C2_AtomicCascade ==
    [][ ((tx # NoTx \/ tx' # NoTx) /\ last'.res # "ok")
        => /\ categories' = categories
           /\ items' = items
           /\ logs' = logs ]_vars

\* a cascading delete has failed after its cursor had already written, in a
\* database that still holds the parent and a child
C2_Witness ==
    /\ last.op = "items.delete" /\ last.res = "error" /\ last.arg > 0
    /\ last.id \in DOMAIN items
    /\ LogsOf(last.id) # {}

\* C3 (SpecReassign): when categoriesRepo.delete(X, Y) with a replacement Y
\* other than X commits, every item that was filed under X is filed under Y,
\* no item is filed under X, and X is absent from categoriesRepo.list().
C3_DeleteReassigns ==
    [][ (tx.op = "categories.delete" /\ last'.op = "categories.delete"
         /\ last'.res = "ok" /\ tx.repl # NoRepl /\ tx.repl # tx.id)
        => /\ \A i \in DOMAIN items :
                items[i].categoryId = tx.id =>
                    i \in DOMAIN items' /\ items'[i].categoryId = tx.repl
           /\ \A i \in DOMAIN items' : items'[i].categoryId # tx.id
           /\ LET list == categoriesRepo_listWith(categories', hasBySortIndex') IN
                \A n \in 1..Len(list) : list[n].id # tx.id ]_vars

\* a delete with a stored replacement has moved items: both items are now
\* filed under the replacement
C3_Witness ==
    /\ last.op = "categories.delete" /\ last.res = "ok"
    /\ last.arg[1] \in DOMAIN categories /\ last.arg[2] > 0
    /\ Cardinality(DOMAIN items) = 2
    /\ \A i \in DOMAIN items : items[i].categoryId = last.arg[1]

\* the zero-based position of the last occurrence of id in idsInOrder
LastIndexOf(idsInOrder, id) ==
    Max({n \in 1..Len(idsInOrder) : idsInOrder[n] = id}) - 1

\* the stored ids of idsInOrder, each once, in the order of their last
\* occurrences
RECURSIVE StoredInOrder(_, _, _)
StoredInOrder(idsInOrder, stored, n) ==
    IF n > Len(idsInOrder) THEN <<>>
    ELSE (IF idsInOrder[n] \in stored
             /\ \A m \in (n + 1)..Len(idsInOrder) : idsInOrder[m] # idsInOrder[n]
          THEN <<idsInOrder[n]>> ELSE <<>>)
         \o StoredInOrder(idsInOrder, stored, n + 1)

IdsOf(list) == [n \in 1..Len(list) |-> list[n].id]
IsListed(idsInOrder, id) == \E n \in 1..Len(idsInOrder) : idsInOrder[n] = id

\* C4 (SpecCat): categoriesRepo.reorder(ids) completes without error, gives
\* every stored category whose id occurs in ids the sortOrder of its position
\* in ids (of its last position, should ids repeat it), makes
\* categoriesRepo.list() return those categories in the order of ids, and
\* skips the ids that are not stored: no record is created.
C4_Reorder ==
    [][ last'.op = "categories.reorder" =>
        LET idsInOrder == last'.arg
            listed(c) == IsListed(idsInOrder, c.id) IN
        /\ last'.res = "ok"
        /\ DOMAIN categories' = DOMAIN categories
        /\ \A id \in DOMAIN categories' :
              IsListed(idsInOrder, id) =>
                  categories'[id].sortOrder = LastIndexOf(idsInOrder, id)
        /\ IdsOf(SelectSeq(categoriesRepo_listWith(categories', hasBySortIndex'), listed))
              = StoredInOrder(idsInOrder, DOMAIN categories, 1) ]_vars

\* reorder was given an id that is not stored and, after it, the id of a
\* stored category, which now lists behind a category of greater key
C4_Witness ==
    /\ last.op = "categories.reorder" /\ last.res = "ok"
    /\ \E n \in 1..Len(last.arg) : last.arg[n] \notin DOMAIN categories
    /\ \E a, b \in DOMAIN categories :
          /\ a < b
          /\ IsListed(last.arg, a)
          /\ categories[a].sortOrder = 1
          /\ categories[b].sortOrder = 0

\* C5 (Spec): logsRepo.listByItem(itemId) returns exactly the stored logs of
\* the item, each once, ordered by date descending.
C5_ListByItem ==
    \A itemId \in ItemIds :
        LET list == logsRepo_listByItem(itemId) IN
        /\ Range(list) = LogsOf(itemId)
        /\ Len(list) = Cardinality(LogsOf(itemId))
        /\ \A m, n \in 1..Len(list) : m < n => list[m].date >= list[n].date

\* an item has two logs whose key order is the reverse of the order returned
C5_Witness ==
    \E itemId \in ItemIds :
        LET list == logsRepo_listByItem(itemId) IN
        /\ Len(list) = 2
        /\ list[1].id > list[2].id
        /\ list[1].date > list[2].date

\* C6 (Spec): logsRepo.getLastLog(itemId) returns a log of the item that
\* carries the maximum date among the item's logs, and returns undefined
\* exactly when the item has no log.
C6_LastLog ==
    \A itemId \in ItemIds :
        LET lastLog == logsRepo_getLastLog(itemId) IN
        /\ (lastLog = undefined) <=> (LogsOf(itemId) = {})
        /\ LogsOf(itemId) # {} =>
              /\ lastLog \in LogsOf(itemId)
              /\ \A l \in LogsOf(itemId) : l.date <= lastLog.date

\* an update of a date has made the log with the greater key the last log of
\* an item with two logs
C6_Witness ==
    /\ last.op = "logs.update" /\ last.id \in DOMAIN logs
    /\ LET itemId == logs[last.id].itemId IN
        /\ Cardinality(LogsOf(itemId)) = 2
        /\ logsRepo_getLastLog(itemId).id = last.id
        /\ \E l \in LogsOf(itemId) : l.id < last.id /\ l.date < logs[last.id].date

\* C7 (SpecCat): categoriesRepo.create inserts exactly one category, under an
\* id not stored before, with sortOrder 0 when no category was stored and
\* otherwise the greatest stored sortOrder plus one; every category stored
\* before is unchanged.
C7_CreateSortOrder ==
    [][ last'.op = "categories.create" =>
        LET id == last'.id IN
        /\ id \notin DOMAIN categories
        /\ DOMAIN categories' = DOMAIN categories \cup {id}
        /\ \A c \in DOMAIN categories : categories'[c] = categories[c]
        /\ categories'[id].id = id
        /\ categories'[id].sortOrder =
              IF DOMAIN categories = {} THEN 0
              ELSE Max({categories[c].sortOrder : c \in DOMAIN categories}) + 1 ]_vars

\* a create on a list with a gap: the new sortOrder exceeds the number of
\* categories stored before
C7_Witness ==
    /\ last.op = "categories.create" /\ last.id \in DOMAIN categories
    /\ Cardinality(DOMAIN categories) >= 2
    /\ categories[last.id].sortOrder > Cardinality(DOMAIN categories) - 1

\* C8 (SpecCat): categoriesRepo.list() returns every stored category, ordered
\* by sortOrder ascending, and the index scan and the fetch-all-and-sort
\* fallback return the same sequence.
C8_ListOrder ==
    LET list == categoriesRepo_list IN
    /\ Range(list) = {categories[c] : c \in DOMAIN categories}
    /\ Len(list) = Cardinality(DOMAIN categories)
    /\ \A m, n \in 1..Len(list) : m < n => list[m].sortOrder <= list[n].sortOrder
    /\ categoriesRepo_listWith(categories, TRUE)
          = categoriesRepo_listWith(categories, FALSE)

\* without the index: three categories, two of them with the same sortOrder,
\* and one whose key order is the reverse of its place in the list
C8_Witness ==
    /\ ~hasBySortIndex
    /\ Cardinality(DOMAIN categories) = 3
    /\ \E a, b \in DOMAIN categories :
          a # b /\ categories[a].sortOrder = categories[b].sortOrder
    /\ \E a, b \in DOMAIN categories :
          a < b /\ categories[a].sortOrder > categories[b].sortOrder

\* what update(id, updates) may do to its collection: nothing when id is not
\* stored; otherwise the record under id takes the supplied fields and keeps
\* its others, and every other record is as before
PatchedOnly(before, after, id, updates) ==
    IF id \notin DOMAIN before THEN after = before
    ELSE /\ DOMAIN after = DOMAIN before
         /\ \A k \in DOMAIN before \ {id} : after[k] = before[k]
         /\ DOMAIN after[id] = DOMAIN before[id]
         /\ \A f \in DOMAIN before[id] :
               after[id][f] = IF f \in DOMAIN updates THEN updates[f] ELSE before[id][f]

\* C9 (SpecPatch): for categories, items and logs, update(id, partial) on an
\* id that is not stored completes without error and leaves every collection
\* unchanged; on a stored id it changes only the supplied fields of that one
\* record, and no other record of any collection.
C9_UpdateFrame ==
    [][ /\ last'.op \in {"categories.update", "items.update", "logs.update"} =>
              last'.res = "ok" /\ prefs' = prefs
        /\ last'.op = "categories.update" =>
              /\ PatchedOnly(categories, categories', last'.id, last'.arg)
              /\ items' = items /\ logs' = logs
        /\ last'.op = "items.update" =>
              /\ PatchedOnly(items, items', last'.id, last'.arg)
              /\ categories' = categories /\ logs' = logs
        /\ last'.op = "logs.update" =>
              /\ PatchedOnly(logs, logs', last'.id, last'.arg)
              /\ categories' = categories /\ items' = items ]_vars

\* an update of an item that is not stored has completed, after an update
\* that changed the note of one of two logs and left the other log alone
C9_Witness ==
    /\ last.op = "items.update" /\ last.res = "ok"
    /\ last.id \notin DOMAIN items
    /\ items \in PatchItems
    /\ Cardinality(DOMAIN logs) = 2
    /\ logs[1].note = "note" /\ logs[1].date = 1
    /\ logs[2] = NewLog(2, 1, 2, "note")

\* C10 (SpecSeed): seedDefaults() on a store without categories inserts exactly
\* the default categories, with sortOrder 0, 1, ... in list order and the
\* palette colour of that position; on a store that holds a category it
\* leaves the categories as they are.  It leaves exactly one preferences row:
\* the stored one, or the defaults when none was stored.  A call that follows
\* a call changes nothing.
C10_SeedIdempotent ==
    [][ last'.op = "seedDefaults" =>
        /\ last'.res = "ok"
        /\ DOMAIN categories = {} =>
              LET list == categoriesRepo_listWith(categories', hasBySortIndex') IN
              /\ Len(list) = Len(SeedNames)
              /\ \A n \in 1..Len(list) :
                    /\ list[n].name = DEFAULT_CATEGORIES[n]
                    /\ list[n].sortOrder = n - 1
                    /\ list[n].color = DEFAULT_CATEGORY_COLORS[n]
        /\ DOMAIN categories # {} => categories' = categories
        /\ DOMAIN prefs' = {"settings"}
        /\ DOMAIN prefs = {} => prefs'["settings"] = DEFAULT_PREFERENCES
        /\ DOMAIN prefs # {} => prefs' = prefs
        /\ last.op = "seedDefaults" => categories' = categories /\ prefs' = prefs ]_vars

\* a second call in a row has found the store seeded: it read NumDefaults
\* categories and the stored preferences, and the store holds one default set
C10_Witness ==
    /\ last.op = "seedDefaults"
    /\ last.id = Len(SeedNames) /\ last.arg = DEFAULT_PREFERENCES
    /\ Cardinality(DOMAIN categories) = Len(SeedNames)
    /\ \A n \in 1..Len(SeedNames) :
          categoriesRepo_list[n].name = SeedNames[n]

\* C11 (SpecOpen): getDB() calls share one open.  A call made while a promise
\* is memoized, in flight or resolved, starts no open and returns that
\* promise; a call made while none is memoized starts exactly one open and
\* returns it; so at most one open is in flight and every caller of that time
\* holds it.
C11_SingleOpen ==
    [][ /\ Cardinality({o \in DOMAIN opens' : InFlight(opens'[o])}) <= 1
        /\ Len(got') = Len(got) + 1 =>
              LET promise == got'[Len(got')] IN
              /\ promise = dbPromise'
              /\ dbPromise # NoPromise => promise = dbPromise /\ opens' = opens
              /\ dbPromise = NoPromise =>
                    /\ Len(opens') = Len(opens) + 1
                    /\ promise = Len(opens')
                    /\ opens'[promise] = "pending" ]_vars

\* three calls were handed the one open of the page, which has resolved
C11_Witness ==
    /\ Len(opens) = 1 /\ opens[1] = "resolved"
    /\ Len(got) >= 3
    /\ \A k \in DOMAIN got : got[k] = 1

\* C12 (SpecOpen): a failed open is not kept.  When the catch handler of an
\* open runs, the memoized promise is cleared; no getDB() call is handed a
\* rejected promise, so the callers that share the failure are those that
\* called before it, and the call after it starts a new open.
C12_RetryAfterFailure ==
    [][ /\ \A o \in DOMAIN opens' :
              (opens'[o] = "rejected" /\ o \in DOMAIN opens /\ opens[o] # "rejected")
                  => dbPromise' = NoPromise
        /\ dbPromise' # NoPromise => opens'[dbPromise'] # "rejected"
        /\ Len(got') = Len(got) + 1 => opens'[got'[Len(got')]] # "rejected" ]_vars

\* two callers shared an open that failed, and a later call got a new open,
\* which has resolved
C12_Witness ==
    /\ Len(opens) = 2 /\ opens[1] = "rejected" /\ opens[2] = "resolved"
    /\ Len(got) >= 3 /\ got[1] = 1 /\ got[2] = 1 /\ got[3] = 2

\* C13 (SpecClear): when clearDatabase() completes, the handle it awaited is
\* closed and is no longer memoized (the memo is undefined, or an open that
\* was started after the close and is still in flight), and the open that
\* succeeds next finds no database and creates it anew, with all four
\* collections empty.
C13_ClearDatabase ==
    [][ /\ (clearCall # NoTx /\ clearCall.pc = "await delete" /\ clearCall' = NoTx
            /\ opens' = opens /\ last'.res = "ok") =>
              /\ last'.op = "clearDatabase" /\ last'.id = clearCall.promise
              /\ opens'[last'.id] = "closed"
              /\ dbPromise' # last'.id
              /\ dbPromise' # NoPromise =>
                    dbPromise' > last'.id /\ InFlight(opens'[dbPromise'])
        /\ (last.op = "clearDatabase" /\ last.res = "ok"
            /\ last'.op = "open" /\ last'.res = "ok") =>
              /\ disk = NoDatabase /\ disk' = CurrentDatabase /\ hasBySortIndex'
              /\ categories' = EmptyStore
              /\ items' = EmptyStore
              /\ logs' = EmptyStore
              /\ prefs' = EmptyStore ]_vars

\* the step in which an open request succeeds
OpenSucceeded == last'.op = "open" /\ last'.res = "ok" /\ opens' # opens /\ opens' # <<>>

\* the palette color at the index of name in the default names, else gray
PaletteColor(name) ==
    IF \E n \in 1..Len(DEFAULT_CATEGORIES) : DEFAULT_CATEGORIES[n] = name
    THEN DEFAULT_CATEGORY_COLORS[CHOOSE n \in 1..Len(DEFAULT_CATEGORIES) :
                                     DEFAULT_CATEGORIES[n] = name]
    ELSE GRAY

\* C14 (SpecUpgrade): an open that upgrades from a version below 6 gives each
\* category without a color the palette color of its name, or gray, and
\* changes nothing else; a category that has a color is left as it is; an
\* open of a database of the current version rewrites no category, so that
\* the color is assigned once.
C14_ColorMigration ==
    [][ OpenSucceeded =>
          /\ DOMAIN categories' = DOMAIN categories
          /\ \A k \in DOMAIN categories :
                /\ (disk.version < 6 /\ categories[k].color = NoColor) =>
                      categories'[k] =
                          [categories[k] EXCEPT !.color = PaletteColor(categories[k].name)]
                /\ categories[k].color # NoColor => categories'[k] = categories[k]
                /\ disk.version = DB_VERSION => categories'[k] = categories[k] ]_vars

\* an upgrade has colored 'Car' from the palette and left the color that
\* 'Custom' had
C14_Witness ==
    /\ last.op = "open" /\ last.res = "ok" /\ last.arg.oldVersion \in 1..5
    /\ DOMAIN categories = {1, 2}
    /\ categories[1].color = DEFAULT_CATEGORY_COLORS[2]
    /\ categories[2].color = DEFAULT_CATEGORY_COLORS[1]

\* C15 (SpecUpgrade): one open of a database of any version below the
\* current one, with any of the stores and indexes missing, ends with the
\* four object stores and the five indexes, and with every record that was
\* stored.
C15_UpgradeCompletes ==
    [][ (OpenSucceeded /\ disk.version < DB_VERSION) =>
          /\ disk'.version = DB_VERSION
          /\ disk'.stores = StoreNames
          /\ indexNames' = IndexNames
          /\ DOMAIN categories' = DOMAIN categories
          /\ items' = items
          /\ logs' = logs
          /\ prefs' = prefs ]_vars

\* an upgrade from version 5 has completed on a database that had logs but
\* not their by-item index, categories but not their by-sort index, and no
\* prefs store
C15_Witness ==
    /\ last.op = "open" /\ last.res = "ok" /\ last.arg.oldVersion = 5
    /\ {"logs", "categories"} \subseteq last.arg.stores
    /\ "prefs" \notin last.arg.stores
    /\ "by-item" \notin last.arg.indexes /\ "by-sort" \notin last.arg.indexes
    /\ logs # EmptyStore /\ categories # EmptyStore

\* C16 (SpecFaulty): an error thrown while an index is created does not fail
\* the open, and every open attempts the indexes again: an index that an
\* existing store lacks when the database is opened exists after the open,
\* unless its creation threw in this very open.
C16_IndexRetriedOnOpen ==
    [][ OpenSucceeded =>
          \A indexName \in IndexNames :
              (StoreOf(indexName) \in disk.stores /\ indexName \notin indexNames
               /\ indexName \notin last'.arg.faults)
                  => indexName \in indexNames' ]_vars

\* C17 (SpecReassign): when categoriesRepo.delete(id) without a replacement
\* commits, the category row is the only record removed: every item is as it
\* was, the items filed under id included, and so is every log and the
\* preferences row.
C17_DeleteWithoutReplacement ==
    [][ (tx.op = "categories.delete" /\ last'.op = "categories.delete"
         /\ last'.res = "ok" /\ tx.repl = NoRepl)
        => /\ items' = items
           /\ categories' = Delete(categories, tx.id)
           /\ logs' = logs
           /\ prefs' = prefs ]_vars

\* a category was deleted without a replacement and an item still points at it
C17_Witness ==
    /\ last.op = "categories.delete" /\ last.res = "ok" /\ last.arg[1] = NoRepl
    /\ last.id \notin DOMAIN categories
    /\ \E i \in DOMAIN items : items[i].categoryId = last.id

\* C18 (SpecPrefs): prefsRepo.get() returns the stored record, or theme
\* 'system' and density 'regular' when none is stored; a completed
\* prefsRepo.set(partial) stores what get() returned before it with exactly
\* the supplied fields replaced, so a set of density keeps the theme and a
\* set of theme keeps the density.
C18_PrefsMergePatch ==
    [][ /\ prefsRepo_get = (IF "settings" \in DOMAIN prefs THEN prefs["settings"]
                            ELSE [theme |-> "system", density |-> "regular"])
        /\ (tx.op = "prefs.set" /\ last'.op = "prefs.set" /\ last'.res = "ok") =>
              /\ DOMAIN prefs' = {"settings"}
              /\ \A field \in {"theme", "density"} :
                    prefs'["settings"][field] =
                        IF field \in DOMAIN last'.arg THEN last'.arg[field]
                        ELSE prefsRepo_get[field]
              /\ prefsRepo_getFrom(prefs') = prefs'["settings"] ]_vars

\* the density was set on a store whose theme had been set to dark
C18_Witness ==
    /\ last.op = "prefs.set" /\ last.res = "ok"
    /\ DOMAIN last.arg = {"density"} /\ last.arg.density = "compact"
    /\ prefsRepo_get = [theme |-> "dark", density |-> "compact"]

Find(array, id) ==
    IF \E n \in 1..Len(array) : array[n].id = id
    THEN array[CHOOSE n \in 1..Len(array) : array[n].id = id]
    ELSE undefined

\* the record found carries every field of the partial
Carries(record, updates) ==
    record # undefined /\ \A field \in DOMAIN updates : record[field] = updates[field]

\* C20 (SpecSession): a caller that awaits each call reads its own writes.
\* In the state in which a write has returned, the reads of that collection
\* show it: a created category, item or log is listed with what was given;
\* an updated record that is stored is listed with the fields of the
\* partial; a deleted log is in no list; after a reorder every listed
\* category has the sortOrder of its place.
C20_ReadYourWrites ==
    last.res = "ok" =>
        /\ last.op = "categories.create" =>
              Carries(Find(categoriesRepo_list, last.id), [name |-> last.arg])
        /\ last.op = "categories.update" =>
              (last.id \in DOMAIN categories
                  => Carries(Find(categoriesRepo_list, last.id), last.arg))
        /\ last.op = "categories.reorder" =>
              \A n \in 1..Len(categoriesRepo_list) :
                  IsListed(last.arg, categoriesRepo_list[n].id) =>
                      categoriesRepo_list[n].sortOrder
                          = LastIndexOf(last.arg, categoriesRepo_list[n].id)
        /\ last.op = "items.create" =>
              Carries(Find(itemsRepo_getAll, last.id), last.arg)
        /\ last.op = "items.update" =>
              (last.id \in DOMAIN items
                  => Carries(Find(itemsRepo_getAll, last.id), last.arg))
        /\ last.op = "logs.add" =>
              /\ Carries(Find(logsRepo_listByItem(last.arg), last.id), [itemId |-> last.arg])
              /\ logsRepo_getLastLog(last.arg) # undefined
        /\ last.op = "logs.update" =>
              (last.id \in DOMAIN logs
                  => Carries(Find(logsRepo_listByItem(logs[last.id].itemId), last.id),
                             last.arg))
        /\ last.op = "logs.delete" =>
              \A itemId \in ItemIds : Find(logsRepo_listByItem(itemId), last.id) = undefined

\* a log was added for an item that had one, then its date was changed, and
\* the item's list shows both logs, the changed one first
C20_Witness ==
    /\ last.op = "logs.update" /\ last.res = "ok" /\ last.id \in DOMAIN logs
    /\ Len(logsRepo_listByItem(logs[last.id].itemId)) = 2
    /\ logsRepo_listByItem(logs[last.id].itemId)[1].id = last.id
    /\ logsRepo_listByItem(logs[last.id].itemId)[1].date = last.arg.date
    /\ logsRepo_listByItem(logs[last.id].itemId)[2].date < last.arg.date

\* the titles of the model in alphabetical order
Alphabet == << <<"a", "b">>, <<"b">>, <<"B">> >>
AlphabetIndex(title) == CHOOSE n \in 1..Len(Alphabet) : Alphabet[n] = title

HasLog(item) == item.id \in DOMAIN home.lastLogs /\ home.lastLogs[item.id] # undefined
LastDate(item) == home.lastLogs[item.id].date

\* the items shown, one after the other: the list holds every item of the
\* selected category once, and every two of them are in the given order
ShownInOrder(InOrder(_, _)) ==
    LET shown == home.sortedItems
    IN  /\ Len(shown) = Cardinality(Range(shown))
        /\ Range(shown) = {item \in Range(home.items) :
                              home.selectedCategory \in {NoSelection, item.categoryId}}
        /\ \A i \in 1..Len(shown) : \A j \in (i + 1)..Len(shown) :
               InOrder(shown[i], shown[j])

\* C21 (SpecSort): in 'recently-done' mode every item with a log comes before
\* every item without one, the items with logs are in descending order of
\* their last-log date, and the items without logs in ascending order of
\* their title.
C21_RecentlyDone ==
    home.sortMethod = "recently-done" =>
        LET InOrder(a, b) ==
                /\ HasLog(b) => HasLog(a)
                /\ HasLog(a) /\ HasLog(b) => LastDate(a) >= LastDate(b)
                /\ ~HasLog(a) /\ ~HasLog(b)
                       => AlphabetIndex(a.title) <= AlphabetIndex(b.title)
        IN  ShownInOrder(InOrder)

\* three items come up in another order than they are stored in: the one
\* with a log first, then the two without in the order of their titles
C21_Witness ==
    /\ home.sortMethod = "recently-done"
    /\ Len(home.sortedItems) = 3
    /\ home.sortedItems[1].id = 3 /\ HasLog(home.sortedItems[1])
    /\ home.sortedItems[2].id = 2 /\ ~HasLog(home.sortedItems[2])
    /\ home.sortedItems[3].id = 1 /\ ~HasLog(home.sortedItems[3])
    /\ home.sortedItems[2].title = <<"b">> /\ home.sortedItems[3].title = <<"B">>

\* C22 (SpecSort): in 'oldest-first' mode every item with a log comes before
\* every item without one, the items with logs are in ascending order of
\* their last-log date, and the items without logs in ascending order of
\* their title.
C22_OldestFirst ==
    home.sortMethod = "oldest-first" =>
        LET InOrder(a, b) ==
                /\ HasLog(b) => HasLog(a)
                /\ HasLog(a) /\ HasLog(b) => LastDate(a) <= LastDate(b)
                /\ ~HasLog(a) /\ ~HasLog(b)
                       => AlphabetIndex(a.title) <= AlphabetIndex(b.title)
        IN  ShownInOrder(InOrder)

\* the item with the older log is stored last and shown first, the item
\* without a log is stored first and shown last
C22_Witness ==
    /\ home.sortMethod = "oldest-first"
    /\ Len(home.sortedItems) = 3
    /\ home.sortedItems[1].id = 3 /\ HasLog(home.sortedItems[1])
    /\ home.sortedItems[2].id = 2 /\ HasLog(home.sortedItems[2])
    /\ LastDate(home.sortedItems[1]) < LastDate(home.sortedItems[2])
    /\ home.sortedItems[3].id = 1 /\ ~HasLog(home.sortedItems[3])

\* C23 (SpecSort): in 'alphabetical' mode the list is in ascending order of
\* title, and among the items of one title every item with a log comes
\* before every item without one and the items with logs are in descending
\* order of their last-log date.
C23_Alphabetical ==
    home.sortMethod = "alphabetical" =>
        LET InOrder(a, b) ==
                /\ AlphabetIndex(a.title) <= AlphabetIndex(b.title)
                /\ a.title = b.title =>
                       /\ HasLog(b) => HasLog(a)
                       /\ HasLog(a) /\ HasLog(b) => LastDate(a) >= LastDate(b)
        IN  ShownInOrder(InOrder)

\* three items of one title: the two with logs newest first, then the one
\* without, against the order they are stored in
C23_Witness ==
    /\ home.sortMethod = "alphabetical"
    /\ Len(home.sortedItems) = 3
    /\ \A n \in 1..3 : home.sortedItems[n].title = <<"B">>
    /\ home.sortedItems[1].id = 3 /\ HasLog(home.sortedItems[1])
    /\ home.sortedItems[2].id = 2 /\ HasLog(home.sortedItems[2])
    /\ LastDate(home.sortedItems[1]) > LastDate(home.sortedItems[2])
    /\ home.sortedItems[3].id = 1 /\ ~HasLog(home.sortedItems[3])

\* C24 (SpecSort): in 'never-done' mode every item without a log comes before
\* every item with one, the items without logs are in ascending order of
\* their title, and the items with logs in descending order of their
\* last-log date.
C24_NeverDone ==
    home.sortMethod = "never-done" =>
        LET InOrder(a, b) ==
                /\ HasLog(a) => HasLog(b)
                /\ ~HasLog(a) /\ ~HasLog(b)
                       => AlphabetIndex(a.title) <= AlphabetIndex(b.title)
                /\ HasLog(a) /\ HasLog(b) => LastDate(a) >= LastDate(b)
        IN  ShownInOrder(InOrder)

\* the item without a log is stored last and shown first, before the two
\* with logs, newest first
C24_Witness ==
    /\ home.sortMethod = "never-done"
    /\ Len(home.sortedItems) = 3
    /\ home.sortedItems[1].id = 3 /\ ~HasLog(home.sortedItems[1])
    /\ home.sortedItems[2].id = 2 /\ HasLog(home.sortedItems[2])
    /\ home.sortedItems[3].id = 1 /\ HasLog(home.sortedItems[3])
    /\ LastDate(home.sortedItems[2]) > LastDate(home.sortedItems[3])

\* a character whatever its case
Fold(c) == CASE c = "a" -> "A" [] c = "b" -> "B" [] c = "c" -> "C" [] OTHER -> c

\* the text occurs in the string, case aside
ContainsFolded(s, text) ==
    \E k \in 0..(Len(s) - Len(text)) :
        \A j \in 1..Len(text) : Fold(s[k + j]) = Fold(text[j])

\* the search text without the spaces around it
SearchText ==
    LET q == home.debouncedSearchQuery
        inked == {k \in 1..Len(q) : q[k] # " "}
    IN  IF inked = {} THEN <<>> ELSE SubSeq(q, Min(inked), Max(inked))

\* the names of the stored categories with the id
ResolvedNames(categoryId) ==
    {home.categories[n].name :
        n \in {m \in 1..Len(home.categories) : home.categories[m].id = categoryId}}

\* the notes of the item's logs
NotesOf(item) ==
    IF item.id \in DOMAIN home.allLogs
    THEN {home.allLogs[item.id][n].note :
             n \in {m \in 1..Len(home.allLogs[item.id]) :
                       "note" \in DOMAIN home.allLogs[item.id][m]}}
    ELSE {}

Visible(item) ==
    /\ \/ SearchText = <<>>
       \/ ContainsFolded(item.title, SearchText)
       \/ \E name \in ResolvedNames(item.categoryId) : ContainsFolded(name, SearchText)
       \/ \E note \in NotesOf(item) : ContainsFolded(note, SearchText)
    /\ home.selectedCategory # NoSelection => item.categoryId = home.selectedCategory

\* C25 (SpecFilter): the items shown are exactly the items that contain the
\* trimmed search text, case aside, in their title, in the name of their
\* category or in a note of one of their logs when that text is not empty,
\* and that are filed under the selected category when one is selected.
\* With no text and no category every item is shown.
C25_SearchAndCategory ==
    /\ Range(home.sortedItems) = {item \in Range(home.items) : Visible(item)}
    /\ Len(home.sortedItems) = Cardinality(Range(home.sortedItems))
    /\ SearchText = <<>> /\ home.selectedCategory = NoSelection
           => Len(home.sortedItems) = Len(home.items)

\* ' cab ' is searched with category 1 selected: of two items of the same
\* title and without notes the one filed under 'Cab' is shown, found by the
\* name of its category, and the other is not
C25_Witness ==
    /\ home.debouncedSearchQuery = <<" ", "c", "a", "b", " ">>
    /\ home.selectedCategory = 1
    /\ Len(home.items) = 2 /\ Len(home.sortedItems) = 1
    /\ home.items[1].title = home.items[2].title
    /\ home.sortedItems[1].categoryId = 1
    /\ ~ContainsFolded(home.sortedItems[1].title, SearchText)
    /\ NotesOf(home.sortedItems[1]) = {}

\* the number of a calendar day, counted through the Gregorian calendar
CalendarDay(date) ==
    LET a == (14 - date.month) \div 12
        y == date.year + 4800 - a
        m == date.month + 12 * a - 3
    IN  date.day + ((153 * m + 2) \div 5) + 365 * y + (y \div 4) - (y \div 100)
            + (y \div 400) - 32045

\* C27 (SpecDates): for any two valid calendar dates diffDaysDateOnly(a, b)
\* is the number of calendar days from b to a: 0 for the same date, 1 when a
\* is the day after b, negative when a is earlier, and the negative of
\* diffDaysDateOnly(b, a).
C27_DiffDays ==
    dateCall.fn = "diffDaysDateOnly" /\ "ret" \in DOMAIN dateCall =>
        dateCall.ret = CalendarDay(dateCall.from) - CalendarDay(dateCall.to)

\* C28 (SpecDates): formatAgo(n) is 'Today' for 0, 'Yesterday' for 1,
\* 'n days ago' for n from 2 to 364, and from 365 on 'y year(s) d day(s) ago'
\* with y = floor(n / 365) and d = n mod 365, each word in the singular
\* exactly when its number is 1.
C28_FormatAgo ==
    dateCall.fn = "formatAgo" /\ "ret" \in DOMAIN dateCall =>
        LET n == dateCall.diffDays
        IN  /\ n = 0 => dateCall.ret = <<"Today">>
            /\ n = 1 => dateCall.ret = <<"Yesterday">>
            /\ 2 <= n /\ n < 365 => dateCall.ret = <<n, "days", "ago">>
            /\ n >= 365 =>
                   \E y \in 1..(MaxAgo \div 365 + 1), d \in 0..364 :
                       /\ n = 365 * y + d
                       /\ dateCall.ret = <<y, IF y = 1 THEN "year" ELSE "years",
                                           d, IF d = 1 THEN "day" ELSE "days", "ago">>

\* formatAgo(731) has returned '2 years 1 day ago'
C28_Witness ==
    /\ dateCall.fn = "formatAgo" /\ "ret" \in DOMAIN dateCall
    /\ dateCall.diffDays = 731
    /\ dateCall.ret = <<2, "years", 1, "day", "ago">>

\* the days from the log behind to the log at a place of the list
GapAt(n) == CalendarDay(detail.logs[n].date) - CalendarDay(detail.logs[n + 1].date)

\* C26 (SpecDetail): of logs sorted newest first, none gives average 0, total
\* 0, shortest 0 and one gives average 0, total 1, shortest 0.  Two or more
\* give total = their number; the gaps are the days from each log to the one
\* before it in time and none is negative; shortest is the smallest gap and
\* average the mean of the gaps rounded to the nearest integer, a half
\* upwards.
C26_Stats ==
    "stats" \in DOMAIN detail =>
        LET n == Len(detail.logs)
            gaps == n - 1
            \* the sum of the gaps is the days from the oldest to the newest log
            totalGap == CalendarDay(detail.logs[1].date) - CalendarDay(detail.logs[n].date)
        IN  /\ n = 0 => detail.stats = [average |-> 0, total |-> 0, shortest |-> 0]
            /\ n = 1 => detail.stats = [average |-> 0, total |-> 1, shortest |-> 0]
            /\ n >= 2 =>
                   /\ detail.stats.total = n
                   /\ \A i \in 1..gaps : GapAt(i) >= 0 /\ detail.stats.shortest <= GapAt(i)
                   /\ \E i \in 1..gaps : detail.stats.shortest = GapAt(i)
                   /\ 2 * gaps * detail.stats.average - gaps <= 2 * totalGap
                   /\ 2 * totalGap < 2 * gaps * detail.stats.average + gaps

\* logs of 10, 5 and 1 March: gaps of 5 and 4 days, average 5, shortest 4
C26_Witness ==
    /\ "stats" \in DOMAIN detail
    /\ Len(detail.logs) = 3
    /\ detail.logs[1].date = DateOnly(2024, 3, 10)
    /\ detail.logs[2].date = DateOnly(2024, 3, 5)
    /\ detail.logs[3].date = DateOnly(2024, 3, 1)
    /\ detail.stats = [average |-> 5, total |-> 3, shortest |-> 4]

\* the ids of a history of calls, the one used last first, each once
RECURSIVE LastUses(_)
LastUses(history) ==
    IF history = <<>> THEN <<>>
    ELSE LET id == history[Len(history)]
             before == LastUses(SubSeq(history, 1, Len(history) - 1))
         IN  IF id = NoCategory THEN before
             ELSE <<id>> \o FilterSeq(before, Range(before) \ {id})

\* the ten used last
RecentUses == SubSeq(LastUses(tracked), 1, Min({MAX_RECENT, Len(LastUses(tracked))}))

StoredIds == [n \in 1..Len(Parsed(recent)) |-> Parsed(recent)[n].id]

\* C29 (SpecRecent), as claimed: the list stored has at most 10 entries and
\* each id once, and getRecentIds() returns the ids used last, the last one
\* first.
C29_RecentIds ==
    /\ Len(StoredIds) <= MAX_RECENT
    /\ Cardinality(Range(StoredIds)) = Len(StoredIds)
    /\ getRecentIds(recent, FALSE) = RecentUses

\* C29 (SpecRecent), amended: the list stored has at most 10 entries and each
\* id once, in the order of last use, so that a use of a stored id moves it
\* to the front and an 11th id displaces the one used longest ago;
\* getRecentIds() returns the stored ids by descending timestamp, equal
\* timestamps in stored order, which is the order of last use whenever
\* Date.now() never went back between two calls.
C29_RecentStored ==
    /\ Len(StoredIds) <= MAX_RECENT
    /\ Cardinality(Range(StoredIds)) = Len(StoredIds)
    /\ StoredIds = RecentUses
    /\ LET ids == getRecentIds(recent, FALSE)
           place == [id \in Range(StoredIds) |->
                        CHOOSE n \in 1..Len(StoredIds) : StoredIds[n] = id]
           stamp == [id \in Range(StoredIds) |-> Parsed(recent)[place[id]].timestamp]
       IN  /\ Len(ids) = Len(StoredIds) /\ Range(ids) = Range(StoredIds)
           /\ \A i \in 1..Len(ids) : \A j \in (i + 1)..Len(ids) :
                  \/ stamp[ids[i]] > stamp[ids[j]]
                  \/ stamp[ids[i]] = stamp[ids[j]] /\ place[ids[i]] < place[ids[j]]
           /\ (\A n \in 1..(Len(StoredIds) - 1) :
                   Parsed(recent)[n].timestamp >= Parsed(recent)[n + 1].timestamp)
                  => ids = RecentUses

\* an 11th id was used and then the first one again, in the same
\* millisecond: ten ids are stored, the first one in front, and the second
\* is gone
C29_Witness ==
    /\ Len(StoredIds) = MAX_RECENT
    /\ Len(LastUses(tracked)) = MAX_RECENT + 1
    /\ getRecentIds(recent, FALSE)[1] = 1
    /\ getRecentIds(recent, FALSE)[2] = MAX_RECENT + 1
    /\ 2 \notin Range(StoredIds)
    /\ Parsed(recent)[1].timestamp = Parsed(recent)[2].timestamp

\* the calls that use localStorage
AuxiliaryCalls ==
    {"recent.trackUsage", "recent.getRecentIds", "saveDraft", "getDraft", "clearDraft",
     "prefs.set"}

\* C30 (SpecStorage): when localStorage throws inside trackUsage,
\* getRecentIds, saveDraft, getDraft, clearDraft or the theme hint of
\* prefs.set, the call returns without an error, getRecentIds returning the
\* empty list, the categories, items and logs are as before, and the
\* preferences are as before or, after prefs.set, as the call committed
\* them.
C30_StorageFailures ==
    [][(last' # last /\ last'.op \in AuxiliaryCalls /\ last'.res # "pending"
        /\ "threw" \in DOMAIN last' /\ last'.threw)
       => /\ last'.res = "ok"
          /\ last'.op = "recent.getRecentIds" => last'.arg = <<>>
          /\ categories' = categories /\ items' = items /\ logs' = logs
          /\ prefs' = IF last'.op = "prefs.set" THEN tx.work.prefs ELSE prefs
          /\ recent' = recent /\ draft' = draft /\ localStorage' = localStorage]_vars

\* localStorage threw while a category was used with recent ones and a
\* draft stored
C30_Witness ==
    /\ last.op = "recent.trackUsage"
    /\ "threw" \in DOMAIN last /\ last.threw
    /\ last.res = "ok"
    /\ Len(Parsed(recent)) > 0
    /\ draft \in Drafts
    /\ DOMAIN categories # {}

\* C31 (SpecSort): computing the sorted and filtered view leaves the array
\* items as it was, in order and in contents, whatever the sort method, the
\* search text and the selection.
C31_PureView == [][home'.items = home.items]_vars

\* C32 (SpecSettings): when a category is deleted from the settings sheet,
\* every item that was filed under it is filed under a stored category
\* afterwards, whichever category it was, 'Uncategorized' included.
C32_NoDanglingCategory ==
    [][(tx.op = "categories.delete" /\ tx' = NoTx /\ last'.res = "ok")
       => \A i \in DOMAIN items :
              items[i].categoryId = tx.id
                  => i \in DOMAIN items' /\ items'[i].categoryId \in DOMAIN categories']_vars

\* C33 (SpecOverlap): whatever the interleaving of itemsRepo.create,
\* logsRepo.add invoked for a stored item (directly or by the timer of a
\* swipe), logsRepo.update, logsRepo.delete and itemsRepo.delete, every
\* stored log belongs to a stored item.
C33_LogsOfStoredItems == \A id \in DOMAIN logs : logs[id].itemId \in DOMAIN items

\* C34 (SpecTheme): once theme changes have been made from the settings
\* sheet and none is in progress, the hint 'ago-theme' is the theme of the
\* stored preferences, whether the writes committed or failed and whether or
\* not the changes overlapped.
C34_HintIsStoredTheme ==
    (Idle /\ calls = {} /\ last.op = "prefs.set")
        => localStorage = prefsRepo_get.theme

\* the store holds as many records as before and none but the one under id
\* was written
SameKeys(before, after, id) ==
    /\ Cardinality(DOMAIN after) = Cardinality(DOMAIN before)
    /\ \A key \in (DOMAIN before \cup DOMAIN after) \ {id} :
           key \in DOMAIN before /\ key \in DOMAIN after /\ after[key] = before[key]
    /\ id \in DOMAIN before => id \in DOMAIN after /\ after[id].id = id

\* C35 (SpecRekey): update(id, partial) of a category, an item or a log
\* leaves the number of records of the collection and the key of the record
\* as they were, whatever the partial, one with another id included.
C35_UpdateKeepsKeys ==
    [][/\ last'.op = "categories.update" => SameKeys(categories, categories', last'.id)
       /\ last'.op = "items.update" => SameKeys(items, items', last'.id)
       /\ last'.op = "logs.update" => SameKeys(logs, logs', last'.id)]_vars

OpenSheets == {sheet \in DOMAIN sheets : sheets[sheet]}

\* the sheet a handler is of
SheetOf(handler) ==
    CASE handler \in {"openFilterSheet", "closeFilterSheet"} -> "filter"
      [] handler \in {"openSortSheet", "closeSortSheet"} -> "sort"
      [] handler \in {"openSettingsSheet", "closeSettingsSheet"} -> "settings"

\* C37 (SpecSheets): at most one of the filter, sort and settings sheets is
\* open in every state; an open handler leaves its sheet open and the other
\* two closed, and a close handler closes its sheet and leaves the flags of
\* the other two as they were.
C37_OneSheetOpen ==
    /\ [](Cardinality(OpenSheets) <= 1)
    /\ [][/\ last'.op \in {"openFilterSheet", "openSortSheet", "openSettingsSheet"}
              => /\ sheets'[SheetOf(last'.op)]
                 /\ \A sheet \in DOMAIN sheets \ {SheetOf(last'.op)} : ~sheets'[sheet]
          /\ last'.op \in {"closeFilterSheet", "closeSortSheet", "closeSettingsSheet"}
              => /\ ~sheets'[SheetOf(last'.op)]
                 /\ \A sheet \in DOMAIN sheets \ {SheetOf(last'.op)} :
                        sheets'[sheet] = sheets[sheet]]_vars

\* the sort sheet was opened over the filter sheet, in which a category had
\* been selected: the sort sheet alone is open
C37_Witness ==
    /\ last.op = "openSortSheet"
    /\ OpenSheets = {"sort"}
    /\ home.selectedCategory = 2

\* C36 (SpecForm): the draft slot is written by the draft timer alone, 500 ms
\* after the last change of the title or the category, with the title and
\* the category the form then holds, and cleared instead when both are
\* empty; a submit that succeeds leaves the slot empty, and no step writes
\* the slot while the form is closed.
C36_DraftDebounced ==
    /\ [][(last'.op = "handleSubmit" /\ last' # last) => draft' = NoItem]_vars
    /\ [][draft' # draft =>
            \/ /\ form.isOpen /\ form.timer.set
               /\ form.timer.title = form.title /\ form.timer.categoryId = form.categoryId
               /\ draft' = IF trim(form.title) = <<>> /\ form.categoryId = NoCategory
                           THEN NoItem
                           ELSE stringify([title |-> form.title,
                                           categoryId |-> form.categoryId])
            \/ last'.op = "handleSubmit" /\ last' # last /\ draft' = NoItem]_vars

\* C38 (SpecCreates): under every interleaving of create calls, the category
\* a call adds has a sortOrder greater than the sortOrder of every category
\* stored when it is added, those of the other calls included, so that the
\* sortOrders are pairwise distinct and each new category lists last.
C38_DistinctSortOrders ==
    [][(last'.op = "categories.create" /\ last' # last) =>
          \A id \in DOMAIN categories :
              categories'[last'.id].sortOrder > categories[id].sortOrder]_vars

\* C39 (SpecHandles): under every interleaving of clearDatabase() with other
\* operations, each request of an operation is made on a connection that is
\* open, never on one that clearDatabase has closed.
C39_NoClosedHandle ==
    [][(last'.op = "request" /\ last' # last) => opens[last'.id] = "resolved"]_vars

\* the arrays that hold the elements of an array in some order
Orderings(array) ==
    {[k \in 1..Len(array) |-> array[order[k]]] :
        order \in {o \in [1..Len(array) -> 1..Len(array)] :
                      \A i, j \in 1..Len(array) : i # j => o[i] # o[j]}}

\* C40 (SpecSort): the sorted view does not depend on the order of its
\* input: sorting any ordering of the filtered items, with the same sort
\* method and the same last logs, gives the sequence the page shows, also
\* when items share a title or a last-log date.
C40_OrderIndependent ==
    home.sortingReady =>
        \A input \in Orderings(Filtered(home)) :
            SortItems(input, home.sortMethod, home.lastLogs) = home.sortedItems

====
